---- MODULE Spec2Model ----
(***************************************************************************)
(* A model of the LibyaFPL core:                                           *)
(*   - the auto-substitution scan (core/the100.py calculate_auto_subs and  *)
(*     core/backfill.py _calculate_auto_subs),                             *)
(*   - the team-league gap detection and backfill (core/backfill.py) over  *)
(*     the team-league tables of models.py,                                *)
(*   - The 100 controller (core/the100.py get_the100_standings) and the    *)
(*     admin routes of app.py over the qualified registry and the          *)
(*     elimination results,                                                *)
(*   - the phase and the response cache of get_the100_standings,           *)
(*   - the projected bonus and the live elements built from it,            *)
(*   - calculate_live_points for one manager,                              *)
(*   - the elite league backfill of app.py over standings_history,         *)
(*   - the elimination zone marked in an elimination-phase result.         *)
(* Each part has its own specification; a specification leaves the other   *)
(* parts' variables unchanged.                                             *)
(***************************************************************************)
EXTENDS Integers, Sequences, FiniteSets, TLC

VARIABLES
    \* ---- auto-substitution scan ----
    variant,          \* "the100" (calculate_auto_subs) or "backfill" (_calculate_auto_subs)
    picks,            \* the 15 roster picks, each with the player's position, minutes,
                      \* team-done state and points
    subs_pc,          \* "start", "scan", "done"
    non_playing,      \* indices (into picks) of the starters the scan iterates over
    next_starter,     \* position of the outer loop in non_playing
    formation,        \* the running counts [d, m, f, g]
    used_bench_ids,   \* bench picks consumed (swapped in or reserved)
    sub_points,       \* points added by accepted substitutions
    swaps,            \* accepted substitutions, in order: <<starter index, bench index>>
    \* ---- team-league backfill ----
    current_gw,       \* the provider's current gameweek
    tls,              \* table team_league_standings (committed rows of the league)
    tlm,              \* table team_league_matches (committed rows of the league)
    backfill_in_progress, \* _backfill_in_progress[league_type]
    bf,               \* per request thread: control position and locals of the run
    faults,           \* failures injected so far (fetches that failed, commits that failed)
    first_run,        \* history: per gap list, the rows the first undisturbed run over it left
    \* ---- The 100: the qualification cut ----
    qual_standings,   \* the qualification standings the provider returned
    qual_pc,          \* "fetched" -> "done"
    qualified,        \* the qualified list built from them
    \* ---- The 100: the registry and the eliminations ----
    the100_gw,        \* the provider's current gameweek
    gw_final,         \* is_gameweek_finished(current gameweek): the buffer has passed
    reg,              \* table the100_qualified, in qualification_rank order
    elims,            \* table the100_eliminations
    rq,               \* per request thread: the handler, its position and locals
    the100_faults,    \* failures injected so far (database errors, picks that failed)
    first_seed,       \* history: the list the first committed seeding saved
    \* ---- The 100: the controller's phase and cache ----
    ctl_gw,           \* the provider's current gameweek (the event with is_current)
    ctl_now,          \* time.time()
    cache,            \* _cache: data and timestamp
    ctl,              \* per request thread: position, locals and the last response
    reported_max,     \* history: the latest phase any response has reported so far
    \* ---- live elements: projected and official bonus ----
    bn_pc,            \* "fetched" -> "projected" -> "built"
    bn_gw_started,    \* any fixture of the gameweek has started
    bn_bps,           \* per player of one fixture: the bps of the fixtures endpoint
    bn_official,      \* per player: stats.bonus of the live data
    bn_projected,     \* bonus_points: the result of calculate_projected_bonus
    live_elements,    \* per player: total_points and bonus, as built from the two
    \* ---- calculate_live_points ----
    lv_in,            \* the snapshot: picks_data, live_elements, fixtures
    lv_polls,         \* evaluations made on the snapshot so far
    lv_out,           \* the last evaluation: the total and how it came about
    \* ---- elite league backfill ----
    elite_gw,         \* the provider's current gameweek
    standings_history, \* table standings_history: gameweek, entry_id, league_points
    elite_backfill_in_progress, \* _elite_backfill_in_progress
    el,               \* the request inside backfill_elite_standings: position and locals
    elite_faults,     \* failures injected so far (fetches and commits that failed)
    \* ---- The 100: the elimination zone of a result ----
    zn_pc,            \* "fetched" -> "marked"
    zn_gw,            \* current_gw of the request, in the elimination phase
    zn_standings,     \* the standings of the request, before and after the marking
    zn_result         \* the fields of the result computed with the marking

subsVars == <<variant, picks, subs_pc, non_playing, next_starter, formation,
              used_bench_ids, sub_points, swaps>>

bfVars == <<current_gw, tls, tlm, backfill_in_progress, bf, faults, first_run>>

qualVars == <<qual_standings, qual_pc, qualified>>

elimVars == <<the100_gw, gw_final, reg, elims, rq, the100_faults, first_seed>>

ctlVars == <<ctl_gw, ctl_now, cache, ctl, reported_max>>

bonusVars == <<bn_pc, bn_gw_started, bn_bps, bn_official, bn_projected, live_elements>>

liveVars == <<lv_in, lv_polls, lv_out>>

eliteVars == <<elite_gw, standings_history, elite_backfill_in_progress, el, elite_faults>>

zoneVars == <<zn_pc, zn_gw, zn_standings, zn_result>>

vars == <<subsVars, bfVars, qualVars, elimVars, ctlVars, bonusVars, liveVars, eliteVars,
          zoneVars>>

\* what the steps of one part leave alone
notSubsVars == <<bfVars, qualVars, elimVars, ctlVars, bonusVars, liveVars, eliteVars,
    zoneVars>>
notBfVars == <<subsVars, qualVars, elimVars, ctlVars, bonusVars, liveVars, eliteVars,
    zoneVars>>
notQualVars == <<subsVars, bfVars, elimVars, ctlVars, bonusVars, liveVars, eliteVars,
    zoneVars>>
notElimVars == <<subsVars, bfVars, qualVars, ctlVars, bonusVars, liveVars, eliteVars,
    zoneVars>>
notCtlVars == <<subsVars, bfVars, qualVars, elimVars, bonusVars, liveVars, eliteVars,
    zoneVars>>
notBonusVars == <<subsVars, bfVars, qualVars, elimVars, ctlVars, liveVars, eliteVars,
    zoneVars>>
notLiveVars == <<subsVars, bfVars, qualVars, elimVars, ctlVars, bonusVars, eliteVars,
    zoneVars>>
notEliteVars == <<subsVars, bfVars, qualVars, elimVars, ctlVars, bonusVars, liveVars,
    zoneVars>>
notZoneVars == <<subsVars, bfVars, qualVars, elimVars, ctlVars, bonusVars, liveVars,
    eliteVars>>

-----------------------------------------------------------------------------
(* Small helpers *)

Rep(x, n) == [i \in 1..n |-> x]

CountIn(s, x) == Cardinality({i \in DOMAIN s : s[i] = x})

RECURSIVE SeqsUpTo(_, _)
\* all sequences over S of length at most n
SeqsUpTo(S, n) ==
    IF n = 0 THEN {<<>>}
    ELSE LET shorter == SeqsUpTo(S, n - 1)
         IN  shorter \cup {Append(s, x) : s \in {t \in shorter : Len(t) = n - 1}, x \in S}

-----------------------------------------------------------------------------
(* Auto-substitution scan *)

\* element_type of the provider: 1 goalkeeper, 2 defender, 3 midfielder, 4 forward
PosGK == 1
PosDEF == 2
PosMID == 3
PosFWD == 4

\* formation bounds of formation_ok
MinDef == 3
MaxDef == 5
MinMid == 2
MaxMid == 5
MinFwd == 1
MaxFwd == 3
NumStarters == 11
NumPicks == 15

\* bound: how many starters of a roster have 0 minutes
MaxNonPlaying == 2

formation_ok_no_lower_bound(d, m, f, g) ==
    g = 1 /\ d <= MaxDef /\ m <= MaxMid /\ f <= MaxFwd

formation_ok(d, m, f, g) ==
    g = 1 /\ MinDef <= d /\ d <= MaxDef /\ MinMid <= m /\ m <= MaxMid
          /\ MinFwd <= f /\ f <= MaxFwd

\* the counts of the starters, by position
CountStarters(pk) ==
    [d |-> Cardinality({i \in 1..NumStarters : pk[i].position = PosDEF}),
     m |-> Cardinality({i \in 1..NumStarters : pk[i].position = PosMID}),
     f |-> Cardinality({i \in 1..NumStarters : pk[i].position = PosFWD}),
     g |-> Cardinality({i \in 1..NumStarters : pk[i].position = PosGK})]

\* d2, m2, f2, g2: the counts after taking s_pos out and putting b_pos in
SwapCounts(fm, s_pos, b_pos) ==
    LET out == [d |-> IF s_pos = PosDEF THEN fm.d - 1 ELSE fm.d,
                m |-> IF s_pos = PosMID THEN fm.m - 1 ELSE fm.m,
                f |-> IF s_pos = PosFWD THEN fm.f - 1 ELSE fm.f,
                g |-> IF s_pos = PosGK THEN fm.g - 1 ELSE fm.g]
    IN  [d |-> IF b_pos = PosDEF THEN out.d + 1 ELSE out.d,
         m |-> IF b_pos = PosMID THEN out.m + 1 ELSE out.m,
         f |-> IF b_pos = PosFWD THEN out.f + 1 ELSE out.f,
         g |-> IF b_pos = PosGK THEN out.g + 1 ELSE out.g]

\* the starters the outer loop visits: 0 minutes, and (the100 only) team done
NonPlaying(v, pk) ==
    LET keep(i) == pk[i].minutes = 0 /\ (v = "the100" => pk[i].team_done)
        RECURSIVE Filter(_)
        Filter(i) == IF i > NumStarters THEN <<>>
                     ELSE IF keep(i) THEN <<i>> \o Filter(i + 1) ELSE Filter(i + 1)
    IN  Filter(1)

RECURSIVE BenchScanReuse(_, _, _, _, _, _)
\* the inner loop without "if b_id in used_bench_ids: continue"
BenchScanReuse(v, pk, s, b, fm, used) ==
    IF b > NumPicks THEN [kind |-> "none", bench |-> 0, formation |-> fm]
    ELSE
      LET s_pos == pk[s].position
          b_pos == pk[b].position
          b_played == pk[b].minutes > 0
          b_done == pk[b].team_done
          fm2 == SwapCounts(fm, s_pos, b_pos)
          next == BenchScanReuse(v, pk, s, b + 1, fm, used)
      IN  IF (s_pos = PosGK /\ b_pos # PosGK) \/ (s_pos # PosGK /\ b_pos = PosGK) THEN next
          ELSE IF v = "the100" /\ ~b_played /\ ~b_done
               THEN [kind |-> "reserve", bench |-> b, formation |-> fm]
          ELSE IF ~b_played THEN next
          ELSE IF ~(fm2.g = 1 /\ fm2.d \in MinDef..MaxDef /\ fm2.m \in MinMid..MaxMid
                                /\ fm2.f \in MinFwd..MaxFwd) THEN next
          ELSE [kind |-> "swap", bench |-> b, formation |-> fm2]

RECURSIVE BenchScan(_, _, _, _, _, _)
\* the inner loop "for b in bench" for one starter s, from bench index b on:
\* the outcome [kind, bench, formation]
BenchScan(v, pk, s, b, fm, used) ==
    IF b > NumPicks THEN [kind |-> "none", bench |-> 0, formation |-> fm]
    ELSE
      LET s_pos == pk[s].position
          b_pos == pk[b].position
          b_played == pk[b].minutes > 0
          b_done == pk[b].team_done
          fm2 == SwapCounts(fm, s_pos, b_pos)
          next == BenchScan(v, pk, s, b + 1, fm, used)
      IN  IF b \in used THEN next
          ELSE IF (s_pos = PosGK /\ b_pos # PosGK) \/ (s_pos # PosGK /\ b_pos = PosGK) THEN next
          ELSE IF v = "the100" /\ ~b_played /\ ~b_done
               THEN [kind |-> "reserve", bench |-> b, formation |-> fm]
          ELSE IF ~b_played THEN next
          ELSE IF ~formation_ok(fm2.d, fm2.m, fm2.f, fm2.g) THEN next
          ELSE [kind |-> "swap", bench |-> b, formation |-> fm2]

\* the rosters: a starting eleven within the formation bounds, the bench holding
\* the rest of a 2-5-5-3 squad (goalkeeper first), the starters with 0 minutes
\* listed first in any order of positions
Formations ==
    {fm \in [d : MinDef..MaxDef, m : MinMid..MaxMid, f : MinFwd..MaxFwd] :
        fm.d + fm.m + fm.f = NumStarters - 1}

BenchOrders(fm) ==
    {s \in [1..3 -> {PosDEF, PosMID, PosFWD}] :
        /\ CountIn(s, PosDEF) = MaxDef - fm.d
        /\ CountIn(s, PosMID) = MaxMid - fm.m
        /\ CountIn(s, PosFWD) = MaxFwd - fm.f}

IdleStarters(fm) ==
    {s \in SeqsUpTo({PosGK, PosDEF, PosMID, PosFWD}, MaxNonPlaying) :
        /\ CountIn(s, PosGK) <= 1
        /\ CountIn(s, PosDEF) <= fm.d
        /\ CountIn(s, PosMID) <= fm.m
        /\ CountIn(s, PosFWD) <= fm.f}

BenchStates == {"played", "dnp_done", "dnp_pending"}

Roster(fm, idle, benchOrder, benchState) ==
    LET starterPos ==
            idle \o Rep(PosGK, 1 - CountIn(idle, PosGK))
                 \o Rep(PosDEF, fm.d - CountIn(idle, PosDEF))
                 \o Rep(PosMID, fm.m - CountIn(idle, PosMID))
                 \o Rep(PosFWD, fm.f - CountIn(idle, PosFWD))
        benchPos == <<PosGK>> \o benchOrder
    IN  [i \in 1..NumPicks |->
            IF i <= NumStarters
            THEN [position |-> starterPos[i],
                  minutes |-> IF i <= Len(idle) THEN 0 ELSE 90,
                  team_done |-> TRUE,
                  total_points |-> 2]
            ELSE [position |-> benchPos[i - NumStarters],
                  minutes |-> IF benchState[i - NumStarters] = "played" THEN 90 ELSE 0,
                  team_done |-> benchState[i - NumStarters] # "dnp_pending",
                  total_points |-> i - NumStarters]]

SubsInit ==
    /\ variant \in {"the100", "backfill"}
    /\ \E fm \in Formations :
         \E idle \in IdleStarters(fm), bo \in BenchOrders(fm) :
           \E bs \in [1..(NumPicks - NumStarters) ->
                        IF variant = "the100" THEN BenchStates
                        ELSE {"played", "dnp_done"}] :
              picks = Roster(fm, idle, bo, bs)
    /\ subs_pc = "start"
    /\ non_playing = <<>>
    /\ next_starter = 1
    /\ formation = [d |-> 0, m |-> 0, f |-> 0, g |-> 0]
    /\ used_bench_ids = {}
    /\ sub_points = 0
    /\ swaps = <<>>

\* the counts and the list of non-playing starters
SubsStart ==
    /\ subs_pc = "start"
    /\ formation' = CountStarters(picks)
    /\ non_playing' = NonPlaying(variant, picks)
    /\ subs_pc' = "scan"
    /\ UNCHANGED <<variant, picks, next_starter, used_bench_ids, sub_points, swaps>>
    /\ UNCHANGED notSubsVars

\* one iteration of "for starter in non_playing"
SubsScan ==
    /\ subs_pc = "scan"
    /\ next_starter <= Len(non_playing)
    /\ LET s == non_playing[next_starter]
           r == BenchScan(variant, picks, s, NumStarters + 1, formation, used_bench_ids)
       IN  /\ formation' = r.formation
           /\ used_bench_ids' = IF r.kind = "none" THEN used_bench_ids
                                ELSE used_bench_ids \cup {r.bench}
           /\ sub_points' = IF r.kind = "swap"
                            THEN sub_points + picks[r.bench].total_points
                            ELSE sub_points
           /\ swaps' = IF r.kind = "swap" THEN Append(swaps, <<s, r.bench>>) ELSE swaps
    /\ next_starter' = next_starter + 1
    /\ UNCHANGED <<variant, picks, subs_pc, non_playing>>
    /\ UNCHANGED notSubsVars

\* return sub_points
SubsReturn ==
    /\ subs_pc = "scan"
    /\ next_starter > Len(non_playing)
    /\ subs_pc' = "done"
    /\ UNCHANGED <<variant, picks, non_playing, next_starter, formation,
                   used_bench_ids, sub_points, swaps>>
    /\ UNCHANGED notSubsVars

SubsNext == SubsStart \/ SubsScan \/ SubsReturn

-----------------------------------------------------------------------------
(* Team-league gap detection and backfill (core/backfill.py, models.py) *)

Threads == {"r1", "r2"}

\* teams_fpl_ids: the league's teams and their managers' entry ids
teams_fpl_ids == [A |-> {1, 2}, B |-> {3, 4}]
Teams == DOMAIN teams_fpl_ids
entry_to_team(e) == CHOOSE team \in Teams : e \in teams_fpl_ids[team]

\* standings_by_gw: the hardcoded baseline the callers pass in
standings_by_gw == [g \in {1} |-> [A |-> 3, B |-> 0]]
BaseGW == CHOOSE g \in DOMAIN standings_by_gw : \A h \in DOMAIN standings_by_gw : h <= g

\* bounds: the last gameweek the provider reaches, and the failures injected
MaxGW == 4
MaxFaults == 1

\* upstream: a manager's points of a finished gameweek (_calculate_manager_points
\* of the picks and live data the provider returns), and the H2H pairings
ManagerPoints(e, gw) ==
    IF e = 1 THEN (gw % 3) + 1
    ELSE IF e = 3 THEN ((gw * 2) % 3) + 1
    ELSE 1

H2HResults(gw) == << [entry_1_entry |-> 1, entry_2_entry |-> 3],
                     [entry_1_entry |-> 4, entry_2_entry |-> 2] >>

\* the sets of managers whose picks fetch fails in one gameweek of a run
PickFailures == {{}, {1}}

Get(dict, k, default) == IF k \in DOMAIN dict THEN dict[k] ELSE default

RECURSIVE SumOver(_, _)
SumOver(S, f) ==
    IF S = {} THEN 0
    ELSE LET x == CHOOSE y \in S : TRUE IN f[x] + SumOver(S \ {x}, f)

RECURSIVE SortedSeq(_)
SortedSeq(S) ==
    IF S = {} THEN <<>>
    ELSE LET x == CHOOSE y \in S : \A z \in S : y <= z IN <<x>> \o SortedSeq(S \ {x})

\* get_team_league_standings_full: {team: {league_points, total_fpl_points}}
get_team_league_standings_full(store, gw) ==
    LET rows == {r \in store : r.gameweek = gw}
    IN  [team \in {r.team_name : r \in rows} |->
            LET r == CHOOSE x \in rows : x.team_name = team
            IN  [league_points |-> r.league_points,
                 total_fpl_points |-> r.total_fpl_points]]

RECURSIVE DetectWalk(_, _, _)
\* the loop of detect_missing_gameweeks, from gw down to max_hardcoded_gw + 1
DetectWalk(store, gw, max_hardcoded_gw) ==
    IF gw <= max_hardcoded_gw THEN {}
    ELSE IF gw \in DOMAIN standings_by_gw THEN {}
    ELSE IF DOMAIN get_team_league_standings_full(store, gw) # {} THEN {}
    ELSE {gw} \cup DetectWalk(store, gw - 1, max_hardcoded_gw)

detect_missing_gameweeks(store, cur) ==
    IF cur <= 1 THEN <<>>
    ELSE LET max_hardcoded_gw ==
                 IF DOMAIN standings_by_gw = {} THEN 0
                 ELSE CHOOSE g \in DOMAIN standings_by_gw :
                          \A h \in DOMAIN standings_by_gw : h <= g
         IN  SortedSeq(DetectWalk(store, cur - 1, max_hardcoded_gw))

Zeros == [team \in Teams |-> 0]

RECURSIVE BaseWalk(_, _)
\* "walk further back" of _get_base_for_backfill
BaseWalk(store, gw) ==
    IF gw < 1
    THEN IF DOMAIN standings_by_gw # {}
         THEN LET earliest == CHOOSE g \in DOMAIN standings_by_gw :
                                  \A h \in DOMAIN standings_by_gw : g <= h
              IN  [standings |-> standings_by_gw[earliest], fpl_totals |-> Zeros]
         ELSE [standings |-> Zeros, fpl_totals |-> Zeros]
    ELSE IF gw \in DOMAIN standings_by_gw
    THEN [standings |-> standings_by_gw[gw], fpl_totals |-> Zeros]
    ELSE LET db_data == get_team_league_standings_full(store, gw)
         IN  IF DOMAIN db_data # {}
             THEN [standings |-> [k \in DOMAIN db_data |-> db_data[k].league_points],
                   fpl_totals |-> [k \in DOMAIN db_data |-> db_data[k].total_fpl_points]]
             ELSE BaseWalk(store, gw - 1)

\* a base taken from the latest stored gameweek instead of the one before the gap
base_from_latest_stored(store, base_gw) ==
    LET stored == {r.gameweek : r \in store}
    IN  IF stored = {} THEN BaseWalk(store, base_gw)
        ELSE BaseWalk(store, CHOOSE g \in stored : \A h \in stored : h <= g)

get_base_for_backfill(store, base_gw) == BaseWalk(store, base_gw)

\* step 2 of _do_backfill: the teams' points, without the managers whose picks failed
gw_team_points(gw, failed) ==
    [team \in Teams |->
        LET pts == [e \in teams_fpl_ids[team] |-> ManagerPoints(e, gw)]
        IN  SumOver(teams_fpl_ids[team] \ failed, pts)]

RECURSIVE BuildMatches(_, _, _)
\* step 3 of _do_backfill: one match per pair of teams, first orientation kept
BuildMatches(results, points, acc) ==
    IF results = <<>> THEN acc
    ELSE LET team_1 == entry_to_team(Head(results).entry_1_entry)
             team_2 == entry_to_team(Head(results).entry_2_entry)
             already == \E i \in DOMAIN acc :
                            \/ acc[i].team1 = team_1 /\ acc[i].team2 = team_2
                            \/ acc[i].team1 = team_2 /\ acc[i].team2 = team_1
         IN  IF already THEN BuildMatches(Tail(results), points, acc)
             ELSE BuildMatches(Tail(results), points,
                      Append(acc, [team1 |-> team_1, team2 |-> team_2,
                                   points1 |-> points[team_1],
                                   points2 |-> points[team_2]]))

\* gw_league_points: 3 to the winner, 1 each for a draw
gw_league_points(matches) ==
    [team \in Teams |->
        IF \E i \in DOMAIN matches :
               \/ matches[i].team1 = team /\ matches[i].points1 > matches[i].points2
               \/ matches[i].team2 = team /\ matches[i].points2 > matches[i].points1
        THEN 3
        ELSE IF \E i \in DOMAIN matches :
               /\ team \in {matches[i].team1, matches[i].team2}
               /\ matches[i].points1 = matches[i].points2
        THEN 1
        ELSE 0]

\* save_team_league_standings up to the commit: one pending insert or update per team
StageStandings(store, gw, standings_dict, fpl_points_dict) ==
    {[op |-> IF \E r \in store : r.gameweek = gw /\ r.team_name = team
             THEN "update" ELSE "insert",
      row |-> [gameweek |-> gw, team_name |-> team,
               league_points |-> standings_dict[team],
               total_fpl_points |-> Get(fpl_points_dict, team, 0)]]
     : team \in DOMAIN standings_dict}

\* save_team_league_matches up to the commit
StageMatches(store, gw, matches_list) ==
    {[op |-> IF \E r \in store : /\ r.gameweek = gw
                                 /\ r.team1_name = matches_list[i].team1
                                 /\ r.team2_name = matches_list[i].team2
             THEN "update" ELSE "insert",
      row |-> [gameweek |-> gw,
               team1_name |-> matches_list[i].team1,
               team2_name |-> matches_list[i].team2,
               team1_points |-> matches_list[i].points1,
               team2_points |-> matches_list[i].points2]]
     : i \in DOMAIN matches_list}

\* the columns of the tables' unique constraints (the league is fixed)
StandingsKey(r) == <<r.gameweek, r.team_name>>
MatchKey(r) == <<r.gameweek, r.team1_name, r.team2_name>>
Key(r) == IF "team_name" \in DOMAIN r THEN StandingsKey(r) ELSE MatchKey(r)

\* the rows after the pending operations are applied
Apply(store, ops) ==
    {r \in store : ~\E o \in ops : Key(o.row) = Key(r)} \cup {o.row : o \in ops}

\* a pending insert whose key another writer committed meanwhile: the unique
\* constraint refuses the commit
Conflict(store, ops) ==
    \E o \in ops : o.op = "insert" /\ \E r \in store : Key(r) = Key(o.row)

\* a commit issued after every row: a failure leaves the rows written before it
CommitEachRow(store, ops, ok) ==
    IF ok /\ ~Conflict(store, ops) THEN Apply(store, ops)
    ELSE IF ops = {} THEN store
    ELSE Apply(store, {CHOOSE o \in ops : TRUE})

\* a commit on tables without the unique constraints: every pending insert
\* becomes a row
CommitUnconstrained(store, ops, ok) ==
    IF ok
    THEN {r \in store : ~\E o \in ops : o.op = "update" /\ Key(o.row) = Key(r)}
             \cup {o.row : o \in ops}
    ELSE store

\* db.session.commit() of the pending rows; on failure db.session.rollback()
Commit(store, ops, ok) ==
    IF ok /\ ~Conflict(store, ops) THEN Apply(store, ops) ELSE store

\* failed_at (history): the index in missing_gws of the first gameweek of the run
\* with a fetch or a commit that failed, 0 while there is none
Idle == [pc |-> "idle", missing_gws |-> <<>>, idx |-> 0,
         current_standings |-> Zeros, current_fpl_totals |-> Zeros,
         new_standings |-> Zeros, new_fpl_totals |-> Zeros,
         matches |-> <<>>, session |-> {},
         scoring_ok |-> TRUE, h2h_ok |-> TRUE,
         clean |-> TRUE, overlapped |-> FALSE, failed_at |-> 0]

InBody(t) == bf[t].pc \in {"bootstrap", "fetch", "commit_standings", "commit_matches",
                           "finally"}

BfInit ==
    /\ current_gw = BaseGW + 1
    /\ tls = {}
    /\ tlm = {}
    /\ backfill_in_progress = FALSE
    /\ bf = [t \in Threads |-> Idle]
    /\ faults = 0
    /\ first_run = {}

\* the provider moves to the next gameweek
AdvanceGW ==
    /\ current_gw < MaxGW
    /\ current_gw' = current_gw + 1
    /\ UNCHANGED <<tls, tlm, backfill_in_progress, bf, faults, first_run>>
    /\ UNCHANGED notBfVars

\* a page request: missing = detect_missing_gameweeks(...)
BfDetect(t) ==
    /\ bf[t].pc = "idle"
    /\ bf' = [bf EXCEPT ![t] = [Idle EXCEPT !.pc = "call",
                  !.missing_gws = detect_missing_gameweeks(tls, current_gw)]]
    /\ UNCHANGED <<current_gw, tls, tlm, backfill_in_progress, faults, first_run>>
    /\ UNCHANGED notBfVars

\* a skipped call that resets the guard on its way out
BfCallReleasing(t) ==
    /\ bf[t].pc = "call"
    /\ bf' = [bf EXCEPT ![t].pc =
                  IF bf[t].missing_gws = <<>> THEN "idle"
                  ELSE IF backfill_in_progress THEN "idle"
                  ELSE "acquire"]
    /\ backfill_in_progress' =
          IF bf[t].missing_gws # <<>> /\ backfill_in_progress THEN FALSE
          ELSE backfill_in_progress
    /\ UNCHANGED <<current_gw, tls, tlm, faults, first_run>>
    /\ UNCHANGED notBfVars

\* backfill_missing_gameweeks: "if not missing_gws: return", then the guard test
BfCall(t) ==
    /\ bf[t].pc = "call"
    /\ bf' = [bf EXCEPT ![t].pc =
                  IF bf[t].missing_gws = <<>> THEN "idle"
                  ELSE IF backfill_in_progress THEN "idle"
                  ELSE "acquire"]
    /\ UNCHANGED <<current_gw, tls, tlm, backfill_in_progress, faults, first_run>>
    /\ UNCHANGED notBfVars

\* _backfill_in_progress[league_type] = True
BfAcquire(t) ==
    /\ bf[t].pc = "acquire"
    /\ backfill_in_progress' = TRUE
    /\ bf' = [u \in Threads |->
                IF u = t THEN [bf[t] EXCEPT !.pc = "bootstrap",
                                            !.overlapped = \E v \in Threads \ {t} : InBody(v)]
                ELSE IF InBody(u) THEN [bf[u] EXCEPT !.overlapped = TRUE]
                ELSE bf[u]]
    /\ UNCHANGED <<current_gw, tls, tlm, faults, first_run>>
    /\ UNCHANGED notBfVars

\* _do_backfill up to the loop: the bootstrap fetch and the base standings
BfBootstrap(t) ==
    /\ bf[t].pc = "bootstrap"
    /\ \E ok \in BOOLEAN :
         /\ ~ok => faults < MaxFaults
         /\ faults' = IF ok THEN faults ELSE faults + 1
         /\ IF ok
            THEN LET base == get_base_for_backfill(tls, bf[t].missing_gws[1] - 1)
                 IN  bf' = [bf EXCEPT ![t].pc = "fetch", ![t].idx = 1,
                                      ![t].current_standings = base.standings,
                                      ![t].current_fpl_totals = base.fpl_totals]
            ELSE bf' = [bf EXCEPT ![t].pc = "finally", ![t].clean = FALSE]
    /\ UNCHANGED <<current_gw, tls, tlm, backfill_in_progress, first_run>>
    /\ UNCHANGED notBfVars

\* one gameweek of the loop up to the commit of the standings: steps 1 to 4 and
\* the rows save_team_league_standings adds to the session
BfFetch(t) ==
    /\ bf[t].pc = "fetch"
    /\ LET gw == bf[t].missing_gws[bf[t].idx] IN
       \E live_ok \in BOOLEAN, failed \in PickFailures, matches_ok \in BOOLEAN :
         LET nfail == (IF live_ok THEN 0 ELSE 1) + (IF failed = {} THEN 0 ELSE 1)
                      + (IF matches_ok THEN 0 ELSE 1)
             points == gw_team_points(gw, failed)
             matches == IF matches_ok THEN BuildMatches(H2HResults(gw), points, <<>>)
                        ELSE <<>>
             lp == gw_league_points(matches)
             new_standings == [team \in Teams |->
                                 Get(bf[t].current_standings, team, 0) + lp[team]]
             new_fpl_totals == [team \in Teams |->
                                 Get(bf[t].current_fpl_totals, team, 0) + points[team]]
         IN  /\ faults + nfail <= MaxFaults
             /\ ~live_ok => failed = {} /\ matches_ok
             /\ faults' = faults + nfail
             /\ IF ~live_ok
                THEN bf' = [bf EXCEPT ![t].pc = "finally", ![t].clean = FALSE,
                               ![t].failed_at = IF bf[t].failed_at = 0 THEN bf[t].idx
                                                ELSE bf[t].failed_at]
                ELSE bf' = [bf EXCEPT ![t].pc = "commit_standings",
                               ![t].failed_at = IF bf[t].failed_at = 0 /\ nfail > 0
                                                THEN bf[t].idx ELSE bf[t].failed_at,
                               ![t].new_standings = new_standings,
                               ![t].new_fpl_totals = new_fpl_totals,
                               ![t].matches = matches,
                               ![t].scoring_ok = (failed = {}),
                               ![t].h2h_ok = matches_ok,
                               ![t].clean = bf[t].clean /\ failed = {} /\ matches_ok,
                               ![t].session = StageStandings(tls, gw, new_standings,
                                                             new_fpl_totals)]
    /\ UNCHANGED <<current_gw, tls, tlm, backfill_in_progress, first_run>>
    /\ UNCHANGED notBfVars

\* the commit of save_team_league_standings (its result is not looked at), then
\* the rows save_team_league_matches adds to the session
BfCommitStandings(t) ==
    /\ bf[t].pc = "commit_standings"
    /\ LET gw == bf[t].missing_gws[bf[t].idx] IN
       \E ok \in BOOLEAN :
         /\ ~ok => faults < MaxFaults
         /\ faults' = IF ok THEN faults ELSE faults + 1
         /\ tls' = Commit(tls, bf[t].session, ok)
         /\ bf' = [bf EXCEPT ![t].pc = "commit_matches",
                       ![t].clean = bf[t].clean /\ ok
                                    /\ ~Conflict(tls, bf[t].session),
                       ![t].failed_at = IF /\ bf[t].failed_at = 0
                                           /\ (~ok \/ Conflict(tls, bf[t].session))
                                        THEN bf[t].idx ELSE bf[t].failed_at,
                       ![t].session = StageMatches(tlm, gw, bf[t].matches)]
    /\ UNCHANGED <<current_gw, tlm, backfill_in_progress, first_run>>
    /\ UNCHANGED notBfVars

\* the commit of save_team_league_matches, then "chain for next missing GW"
BfCommitMatches(t) ==
    /\ bf[t].pc = "commit_matches"
    /\ \E ok \in BOOLEAN :
         /\ ~ok => faults < MaxFaults
         /\ faults' = IF ok THEN faults ELSE faults + 1
         /\ tlm' = Commit(tlm, bf[t].session, ok)
         /\ bf' = [bf EXCEPT ![t].pc = IF bf[t].idx < Len(bf[t].missing_gws)
                                        THEN "fetch" ELSE "finally",
                       ![t].idx = bf[t].idx + 1,
                       ![t].clean = bf[t].clean /\ ok
                                    /\ ~Conflict(tlm, bf[t].session),
                       ![t].failed_at = IF /\ bf[t].failed_at = 0
                                           /\ (~ok \/ Conflict(tlm, bf[t].session))
                                        THEN bf[t].idx ELSE bf[t].failed_at,
                       ![t].session = {},
                       ![t].current_standings = bf[t].new_standings,
                       ![t].current_fpl_totals = bf[t].new_fpl_totals]
    /\ UNCHANGED <<current_gw, tls, backfill_in_progress, first_run>>
    /\ UNCHANGED notBfVars

RowsOf(gws) ==
    [standings |-> {r \in tls : \E i \in DOMAIN gws : gws[i] = r.gameweek},
     matches |-> {r \in tlm : \E i \in DOMAIN gws : gws[i] = r.gameweek}]

\* the run went through every gameweek with every fetch and commit succeeding,
\* and no other run was in the body meanwhile
Undisturbed(t) ==
    /\ bf[t].pc = "finally"
    /\ bf[t].clean
    /\ ~bf[t].overlapped
    /\ bf[t].idx > Len(bf[t].missing_gws)

\* a run that ends without the finally clause
BfEndsHoldingGuard(t) ==
    /\ bf[t].pc = "finally"
    /\ bf' = [bf EXCEPT ![t] = Idle]
    /\ UNCHANGED <<current_gw, tls, tlm, backfill_in_progress, faults, first_run>>
    /\ UNCHANGED notBfVars

\* finally: _backfill_in_progress[league_type] = False, on return and on exception
BfFinally(t) ==
    /\ bf[t].pc = "finally"
    /\ backfill_in_progress' = FALSE
    /\ first_run' = IF Undisturbed(t) /\ ~\E h \in first_run : h.gws = bf[t].missing_gws
                    THEN first_run \cup {[gws |-> bf[t].missing_gws,
                                          rows |-> RowsOf(bf[t].missing_gws)]}
                    ELSE first_run
    /\ bf' = [bf EXCEPT ![t] = Idle]
    /\ UNCHANGED <<current_gw, tls, tlm, faults>>
    /\ UNCHANGED notBfVars

BfNext ==
    \/ AdvanceGW
    \/ \E t \in Threads : BfDetect(t)
    \/ \E t \in Threads : BfCall(t)
    \/ \E t \in Threads : BfAcquire(t)
    \/ \E t \in Threads : BfBootstrap(t)
    \/ \E t \in Threads : BfFetch(t)
    \/ \E t \in Threads : BfCommitStandings(t)
    \/ \E t \in Threads : BfCommitMatches(t)
    \/ \E t \in Threads : BfFinally(t)

-----------------------------------------------------------------------------
(* The 100: the qualified list (core/the100.py get_the100_standings, app.py
   init_the100_qualified) *)

WINNER_ENTRY_ID == 49250
ELIMINATIONS_PER_GW == 6
ELIMINATION_START_GW == 20
ELIMINATION_END_GW == 33
\* the literals of the cut: "rank <= 99", "count_non_winner < 99", "rank <= 100",
\* "len(qualified) >= 100"
TopCutoff == 99
QualifiedSize == 100

\* bound: the entries of a standings list beyond the first 100
MaxExtra == 2

\* The entries other than the champion are 1, 2, ... in the order of the list;
\* with sw the 99th and the 100th of them change places.
OtherEntry(k, sw) ==
    IF sw /\ k = TopCutoff THEN TopCutoff + 1
    ELSE IF sw /\ k = TopCutoff + 1 THEN TopCutoff
    ELSE k

\* A standings list of n rows in rank order with the champion in place cp; with
\* tie the rows 99 and 100 share rank 99.
QualStandings(n, cp, sw, tie) ==
    [p \in 1..n |->
        [entry |-> IF p = cp THEN WINNER_ENTRY_ID
                   ELSE OtherEntry(IF p < cp THEN p ELSE p - 1, sw),
         rank |-> IF tie /\ p = TopCutoff + 1 THEN TopCutoff ELSE p]]

QualRow(row, is_winner) ==
    [entry_id |-> row.entry, qualification_rank |-> row.rank, is_winner |-> is_winner]

\* a cut that takes the first 100 rows and forgets the champion
QualifyFirstRows(st) ==
    [p \in 1..(IF Len(st) < QualifiedSize THEN Len(st) ELSE QualifiedSize) |->
        QualRow(st[p], st[p].entry = WINNER_ENTRY_ID)]

\* "Determine qualified managers (top 99 + winner)": the rows the second pass
\* appends, in the order of the list. count_non_winner at a row is the number of
\* other entries before it, up to 99; the break leaves the first 100 appended rows.
Qualify(st) ==
    LET winner_at == {p \in DOMAIN st : st[p].entry = WINNER_ENTRY_ID}
        winner_in_top_99 == \E p \in winner_at : st[p].rank <= TopCutoff
        numbered == [p \in DOMAIN st |-> [pos |-> p, row |-> st[p]]]
        count_non_winner(pos) == (pos - 1) - Cardinality({q \in winner_at : q < pos})
        Take(r) == IF winner_in_top_99 THEN r.row.rank <= QualifiedSize
                   ELSE \/ r.row.entry = WINNER_ENTRY_ID
                        \/ count_non_winner(r.pos) < TopCutoff
        appended == SelectSeq(numbered, Take)
        kept == SubSeq(appended, 1, IF Len(appended) < QualifiedSize
                                    THEN Len(appended) ELSE QualifiedSize)
    IN  [i \in DOMAIN kept |->
            QualRow(kept[i].row, kept[i].row.entry = WINNER_ENTRY_ID)]

QualInit ==
    /\ \E n \in QualifiedSize..(QualifiedSize + MaxExtra) :
       \E cp \in 1..n : \E sw, tie \in BOOLEAN :
           qual_standings = QualStandings(n, cp, sw, tie)
    /\ qual_pc = "fetched"
    /\ qualified = <<>>

QualBuild ==
    /\ qual_pc = "fetched"
    /\ qualified' = Qualify(qual_standings)
    /\ qual_pc' = "done"
    /\ UNCHANGED qual_standings
    /\ UNCHANGED notQualVars

QualNext == QualBuild

-----------------------------------------------------------------------------
(* The 100: seeding the registry and finalizing eliminations (core/the100.py
   get_the100_standings, app.py init_the100_qualified and
   process_the100_elimination, and the save functions of models.py) *)

\* bound: the failures injected
MaxElimFaults == 1

\* the standings lists the provider may return to get_qualification_standings:
\* the champion 101st, the 99th and 100th entry in either order
QualFetches == {QualStandings(QualifiedSize + 1, QualifiedSize + 1, sw, FALSE) :
                    sw \in BOOLEAN}

\* the live snapshots of a gameweek, and the managers whose picks fetch fails
Snapshots == {1, 2}
ElimPickFailures == {{}, {4}}

\* a manager's points in a snapshot; picks that failed leave entry_history absent
LivePoints(e, snap, failed) ==
    IF e \in failed THEN 0
    ELSE IF snap = 2 /\ e <= 3 THEN 10
    ELSE 50

HasEntry(tbl, e) == \E i \in DOMAIN tbl : tbl[i].entry_id = e

\* filter(eliminated_gw IS NULL).order_by(qualification_rank), as the handlers copy it
ActiveManagers(tbl) ==
    LET rows == SelectSeq(tbl, LAMBDA r : r.eliminated_gw = 0)
    IN  [i \in DOMAIN rows |-> [entry_id |-> rows[i].entry_id,
                                qualification_rank |-> rows[i].qualification_rank,
                                is_winner |-> rows[i].is_winner]]

\* save_the100_qualified_managers up to the commit: the managers without a row
StageQualified(tbl, managers_list) ==
    IF tbl = <<>> THEN managers_list
    ELSE SelectSeq(managers_list, LAMBDA m : ~HasEntry(tbl, m.entry_id))

NewRegRow(m) ==
    [entry_id |-> m.entry_id, qualification_rank |-> m.qualification_rank,
     is_winner |-> m.is_winner, eliminated_gw |-> 0, final_rank |-> 0]

\* the table with the new rows, kept in qualification_rank order (a new row goes
\* behind the rows of its rank)
MergeByRank(tbl, rows) ==
    IF rows = <<>> THEN tbl
    ELSE IF tbl = <<>> THEN [i \in DOMAIN rows |-> NewRegRow(rows[i])]
    ELSE LET PosOld(i) == i + Cardinality({j \in DOMAIN rows :
                 rows[j].qualification_rank < tbl[i].qualification_rank})
             PosNew(j) == j + Cardinality({i \in DOMAIN tbl :
                 tbl[i].qualification_rank <= rows[j].qualification_rank})
         IN  [k \in 1..(Len(tbl) + Len(rows)) |->
                IF \E j \in DOMAIN rows : PosNew(j) = k
                THEN NewRegRow(rows[CHOOSE j \in DOMAIN rows : PosNew(j) = k])
                ELSE tbl[CHOOSE i \in DOMAIN tbl : PosOld(i) = k]]

\* the last of the managers under a sort that lists, among equal points, the
\* higher qualification_rank first
WorstLowRankLast(ms, avail, snap, failed) ==
    LET pts(i) == LivePoints(ms[i].entry_id, snap, failed)
        P == {pts(i) : i \in avail}
        minp == CHOOSE x \in P : \A y \in P : x <= y
        G == {i \in avail : pts(i) = minp}
    IN  CHOOSE i \in G : \A j \in 1..(i - 1) : j \notin G

\* the last of the managers `avail` under the order of
\* standings.sort(key=(-live_gw_points, qualification_rank)), a stable sort of a
\* list that comes in qualification_rank order: the fewest points, and among
\* those the last of the list
Worst(ms, avail, snap, failed) ==
    LET pts(i) == LivePoints(ms[i].entry_id, snap, failed)
        P == {pts(i) : i \in avail}
        minp == CHOOSE x \in P : \A y \in P : x <= y
        G == {i \in avail : pts(i) = minp}
    IN  CHOOSE i \in G : \A j \in (i + 1)..Len(ms) : j \notin G

RECURSIVE LastOfStandings(_, _, _, _, _, _)
\* standings[-k:] as the eliminated_list the handlers build from it
LastOfStandings(ms, k, out, acc, snap, failed) ==
    IF k = 0 \/ Cardinality(out) = Len(ms) THEN acc
    ELSE LET w == Worst(ms, DOMAIN ms \ out, snap, failed)
         IN  LastOfStandings(ms, k - 1, out \cup {w},
                 <<[entry_id |-> ms[w].entry_id,
                    gw_points |-> LivePoints(ms[w].entry_id, snap, failed),
                    gw_rank |-> Len(ms) - Cardinality(out)]>> \o acc,
                 snap, failed)

\* a handler without the check
never_processed(tbl, gw) == FALSE

\* "Check if this GW's eliminations have already been processed"
already_processed(tbl, gw) == \E r \in tbl : r.gameweek = gw

\* history: result rows of the gameweek existed when the attempt began
RowsExist(tbl, gw) == \E r \in tbl : r.gameweek = gw

\* save_the100_elimination up to the commit: a result row for each manager
\* without one, and the registry rows found
StageElimination(etbl, rtbl, gw, eliminated_list) ==
    [quals |-> <<>>,
     elim_rows |-> {[gameweek |-> gw, entry_id |-> eliminated_list[i].entry_id,
                     gw_points |-> eliminated_list[i].gw_points,
                     gw_rank |-> eliminated_list[i].gw_rank] :
                    i \in {j \in DOMAIN eliminated_list :
                             ~\E r \in etbl : /\ r.gameweek = gw
                                              /\ r.entry_id = eliminated_list[j].entry_id}},
     reg_updates |-> {[entry_id |-> eliminated_list[i].entry_id,
                       eliminated_gw |-> gw,
                       final_rank |-> eliminated_list[i].gw_rank] :
                      i \in {j \in DOMAIN eliminated_list :
                               HasEntry(rtbl, eliminated_list[j].entry_id)}}]

NoSession == [quals |-> <<>>, elim_rows |-> {}, reg_updates |-> {}]

\* the unique constraints refuse a row another request committed meanwhile
ElimConflict(etbl, rtbl, session) ==
    \/ \E i \in DOMAIN session.quals : HasEntry(rtbl, session.quals[i].entry_id)
    \/ \E x \in session.elim_rows : \E r \in etbl :
           r.gameweek = x.gameweek /\ r.entry_id = x.entry_id

\* the registry after the commit of the session
CommittedReg(rtbl, session) ==
    LET merged == MergeByRank(rtbl, session.quals)
    IN  [i \in DOMAIN merged |->
            IF \E u \in session.reg_updates : u.entry_id = merged[i].entry_id
            THEN LET u == CHOOSE v \in session.reg_updates :
                              v.entry_id = merged[i].entry_id
                 IN  [merged[i] EXCEPT !.eliminated_gw = u.eliminated_gw,
                                       !.final_rank = u.final_rank]
            ELSE merged[i]]

\* picks_failed: the managers missing from picks_data; snap: the live snapshot the
\* standings were computed from
RqIdle == [pc |-> "idle", kind |-> "", gw |-> 0, qualified |-> <<>>,
           eliminated_list |-> <<>>, session |-> NoSession, picks_failed |-> {},
           snap |-> 0, late |-> FALSE, result |-> ""]

ElimInit ==
    /\ the100_gw = ELIMINATION_START_GW
    /\ gw_final = FALSE
    /\ reg = <<>>
    /\ elims = {}
    /\ rq = [t \in Threads |-> RqIdle]
    /\ the100_faults = 0
    /\ first_seed = <<>>

\* the handler returns and its locals are gone; of the response the model keeps
\* whether it was the one for a gameweek already processed
EndRq(t, res) ==
    [RqIdle EXCEPT !.result = IF res = "already_processed" THEN res ELSE ""]

\* the fixtures of the gameweek pass the finish buffer
GwFinishes ==
    /\ ~gw_final
    /\ gw_final' = TRUE
    /\ UNCHANGED <<the100_gw, reg, elims, rq, the100_faults, first_seed>>
    /\ UNCHANGED notElimVars

\* get_the100_standings, elimination phase: the read of the active managers
\* (an exception leaves qualified empty)
DashStart(t) ==
    /\ rq[t].pc = "idle"
    /\ \E ok \in BOOLEAN :
         /\ ~ok => the100_faults < MaxElimFaults
         /\ the100_faults' = IF ok THEN the100_faults ELSE the100_faults + 1
         /\ LET q == IF ok THEN ActiveManagers(reg) ELSE <<>>
            IN  rq' = [rq EXCEPT ![t] =
                         [RqIdle EXCEPT !.pc = IF q = <<>> THEN "seed" ELSE "standings",
                                        !.kind = "dash",
                                        !.gw = the100_gw,
                                        !.qualified = q,
                                        !.late = RowsExist(elims, the100_gw)]]
    /\ UNCHANGED <<the100_gw, gw_final, reg, elims, first_seed>>
    /\ UNCHANGED notElimVars

\* init_the100_qualified: "Check if already initialized"
InitStart(t) ==
    /\ rq[t].pc = "idle"
    /\ rq' = [rq EXCEPT ![t] =
                IF reg # <<>>
                THEN EndRq(t, "already_exists")
                ELSE [RqIdle EXCEPT !.pc = "seed", !.kind = "init"]]
    /\ UNCHANGED <<the100_gw, gw_final, reg, elims, the100_faults, first_seed>>
    /\ UNCHANGED notElimVars

\* process_the100_elimination: the validation, "Check if already processed" and
\* the read of the remaining managers
AdminStart(t) ==
    /\ rq[t].pc = "idle"
    /\ \E gameweek \in (ELIMINATION_START_GW - 1)..the100_gw :
         rq' = [rq EXCEPT ![t] =
                 IF gameweek < ELIMINATION_START_GW \/ gameweek > ELIMINATION_END_GW
                 THEN EndRq(t, "invalid")
                 ELSE IF already_processed(elims, gameweek)
                 THEN EndRq(t, "already_processed")
                 ELSE IF ActiveManagers(reg) = <<>>
                 THEN EndRq(t, "error")
                 ELSE [RqIdle EXCEPT !.pc = "standings", !.kind = "admin",
                                     !.gw = gameweek,
                                     !.late = RowsExist(elims, gameweek),
                                     !.qualified = ActiveManagers(reg)]]
    /\ UNCHANGED <<the100_gw, gw_final, reg, elims, the100_faults, first_seed>>
    /\ UNCHANGED notElimVars

\* get_qualification_standings and the cut; then, on the dashboard, "Save to
\* database if available and this is the first time", and in the init route the
\* save, both up to the commit
Seed(t) ==
    /\ rq[t].pc = "seed"
    /\ \E fetched \in QualFetches \cup {<<>>} :
         IF fetched = <<>>
         THEN rq' = [rq EXCEPT ![t] = EndRq(t, "error")]
         ELSE LET q == Qualify(fetched)
              IN  IF rq[t].kind = "dash" /\ reg # <<>>
                  THEN rq' = [rq EXCEPT ![t].pc = "standings", ![t].qualified = q]
                  ELSE rq' = [rq EXCEPT ![t].pc = "seed_commit", ![t].qualified = q,
                                 ![t].session = [NoSession EXCEPT
                                                   !.quals = StageQualified(reg, q)]]
    /\ UNCHANGED <<the100_gw, gw_final, reg, elims, the100_faults, first_seed>>
    /\ UNCHANGED notElimVars

\* the commit of save_the100_qualified_managers
SeedCommit(t) ==
    /\ rq[t].pc = "seed_commit"
    /\ \E ok \in BOOLEAN :
         LET success == ok /\ ~ElimConflict(elims, reg, rq[t].session)
         IN  /\ ~ok => the100_faults < MaxElimFaults
             /\ the100_faults' = IF ok THEN the100_faults ELSE the100_faults + 1
             /\ reg' = IF success THEN CommittedReg(reg, rq[t].session) ELSE reg
             /\ first_seed' = IF success /\ reg = <<>> THEN rq[t].session.quals
                              ELSE first_seed
             /\ rq' = [rq EXCEPT ![t] =
                         IF rq[t].kind = "dash"
                         THEN [rq[t] EXCEPT !.pc = "standings", !.session = NoSession]
                         ELSE EndRq(t, IF success THEN "success" ELSE "error")]
    /\ UNCHANGED <<the100_gw, gw_final, elims>>
    /\ UNCHANGED notElimVars

\* get_elimination_standings; then, on the dashboard, "AUTO-PROCESS ELIMINATIONS",
\* and in the admin route standings[-6:], both up to the commit of
\* save_the100_elimination
Standings(t) ==
    /\ rq[t].pc = "standings"
    /\ \E live_ok \in BOOLEAN, snap \in Snapshots, failed \in ElimPickFailures :
         LET gw == rq[t].gw
             gw_finished_for_save == IF gw < the100_gw THEN TRUE ELSE gw_final
             eliminated_list == LastOfStandings(rq[t].qualified, ELIMINATIONS_PER_GW,
                                                {}, <<>>, snap, failed)
             staged == [rq[t] EXCEPT !.pc = "elim_commit",
                           !.picks_failed = failed,
                           !.snap = snap,
                           !.eliminated_list = eliminated_list,
                           !.session = StageElimination(elims, reg, gw, eliminated_list)]
         IN  /\ ~live_ok => snap = 1 /\ failed = {}
             /\ failed # {} => the100_faults < MaxElimFaults
             /\ the100_faults' = IF failed # {} THEN the100_faults + 1
                                 ELSE the100_faults
             /\ rq' = [rq EXCEPT ![t] =
                         IF ~live_ok
                         THEN EndRq(t, IF rq[t].kind = "dash" THEN "shown" ELSE "error")
                         ELSE IF rq[t].kind = "admin" THEN staged
                         ELSE IF ~gw_finished_for_save THEN EndRq(t, "shown")
                         ELSE IF already_processed(elims, gw)
                         THEN EndRq(t, "already_processed")
                         ELSE IF Len(rq[t].qualified) > ELIMINATIONS_PER_GW THEN staged
                         ELSE EndRq(t, "shown")]
    /\ UNCHANGED <<the100_gw, gw_final, reg, elims, first_seed>>
    /\ UNCHANGED notElimVars

\* the commit of save_the100_elimination
ElimCommit(t) ==
    /\ rq[t].pc = "elim_commit"
    /\ \E ok \in BOOLEAN :
         LET success == ok /\ ~ElimConflict(elims, reg, rq[t].session)
         IN  /\ ~ok => the100_faults < MaxElimFaults
             /\ the100_faults' = IF ok THEN the100_faults ELSE the100_faults + 1
             /\ elims' = IF success THEN elims \cup rq[t].session.elim_rows ELSE elims
             /\ reg' = IF success THEN CommittedReg(reg, rq[t].session) ELSE reg
             /\ rq' = [rq EXCEPT ![t] = EndRq(t, IF success THEN "success" ELSE "error")]
    /\ UNCHANGED <<the100_gw, gw_final, first_seed>>
    /\ UNCHANGED notElimVars

ElimNext ==
    \/ GwFinishes
    \/ \E t \in Threads : DashStart(t)
    \/ \E t \in Threads : InitStart(t)
    \/ \E t \in Threads : AdminStart(t)
    \/ \E t \in Threads : Seed(t)
    \/ \E t \in Threads : SeedCommit(t)
    \/ \E t \in Threads : Standings(t)
    \/ \E t \in Threads : ElimCommit(t)

-----------------------------------------------------------------------------
(* The 100: a later gameweek of the elimination phase. The registry holds    *)
(* the 100 qualified managers, and every earlier gameweek of the phase was   *)
(* finalized once, from standings in which all managers had the same points. *)
(* The requests are those of the part above.                                 *)

\* the gameweeks the requests arrive in
SeasonStartGWs == {ELIMINATION_START_GW + 1, ELIMINATION_END_GW}

SeasonQualified ==
    Qualify(QualStandings(QualifiedSize + 1, QualifiedSize + 1, FALSE, FALSE))

\* the gameweek in which the manager at place i of the registry left, when every
\* gameweek so far took the last six of the list
LeftIn(i) == ELIMINATION_START_GW + ((QualifiedSize - i) \div ELIMINATIONS_PER_GW)

\* the registry and the result rows when gameweek g begins
RegistryAt(g) ==
    [i \in DOMAIN SeasonQualified |->
        IF LeftIn(i) < g
        THEN [NewRegRow(SeasonQualified[i]) EXCEPT !.eliminated_gw = LeftIn(i),
                                                   !.final_rank = i]
        ELSE NewRegRow(SeasonQualified[i])]

ResultsAt(g) ==
    {[gameweek |-> LeftIn(i), entry_id |-> SeasonQualified[i].entry_id,
      gw_points |-> LivePoints(SeasonQualified[i].entry_id, 1, {}), gw_rank |-> i] :
        i \in {k \in DOMAIN SeasonQualified : LeftIn(k) < g}}

SeasonInit ==
    /\ the100_gw \in SeasonStartGWs
    /\ gw_final = FALSE
    /\ reg = RegistryAt(the100_gw)
    /\ elims = ResultsAt(the100_gw)
    /\ rq = [t \in Threads |-> RqIdle]
    /\ the100_faults = 0
    /\ first_seed = SeasonQualified

SeasonNext ==
    \/ GwFinishes
    \/ \E t \in Threads : DashStart(t)
    \/ \E t \in Threads : AdminStart(t)
    \/ \E t \in Threads : Seed(t)
    \/ \E t \in Threads : Standings(t)
    \/ \E t \in Threads : ElimCommit(t)

-----------------------------------------------------------------------------
(* The 100: the phase and the cache of get_the100_standings (core/the100.py). *)
(* The database work of the elimination branch is the subject of the part     *)
(* above; here a response is its phase, its gameweek and whether it was       *)
(* computed without some upstream data.                                       *)

QUALIFICATION_END_GW == 19
CacheTTL == 120

\* bounds: the gameweeks the provider moves on, and the clock
MaxCtlAdvance == 1
MaxTicks == 2

CtlStartGWs == {QUALIFICATION_END_GW, ELIMINATION_END_GW}

\* "Determine current phase"
PhaseOf(gw) ==
    IF gw <= QUALIFICATION_END_GW THEN "qualification"
    ELSE IF gw <= ELIMINATION_END_GW THEN "elimination"
    ELSE "championship"

PhaseRank(phase) ==
    CASE phase = "qualification" -> 1
      [] phase = "elimination" -> 2
      [] phase = "championship" -> 3
      [] OTHER -> 0

NoData == [phase |-> "none", gameweek |-> 0, degraded |-> FALSE]
Unknown == [phase |-> "unknown", gameweek |-> 0, degraded |-> FALSE]
\* a RuntimeError leaves the try block
Raise == [phase |-> "raise", gameweek |-> 0, degraded |-> FALSE]

\* the response of the last request of a thread: what it returned, whether one
\* of its upstream fetches failed, whether it replaced the cache, and the latest
\* phase reported when it started
NoResponse == [returned |-> NoData, fetch_failed |-> FALSE, stored |-> FALSE, seen |-> 0]

CtlIdle == [pc |-> "idle", now |-> 0, current_gw |-> 0, seen |-> 0, last |-> NoResponse]

CtlInit ==
    /\ ctl_gw \in CtlStartGWs
    /\ ctl_now = 0
    /\ cache = [data |-> NoData, timestamp |-> 0]
    /\ ctl = [t \in Threads |-> CtlIdle]
    /\ reported_max = 0

\* the provider moves to the next gameweek
CtlAdvanceGW ==
    /\ \E g0 \in CtlStartGWs : g0 <= ctl_gw /\ ctl_gw < g0 + MaxCtlAdvance
                               /\ \A g1 \in CtlStartGWs : g1 > g0 => ctl_gw < g1
    /\ ctl_gw' = ctl_gw + 1
    /\ UNCHANGED <<ctl_now, cache, ctl, reported_max>>
    /\ UNCHANGED notCtlVars

\* time passes: half the time to live of the cache
Tick ==
    /\ ctl_now < MaxTicks * (CacheTTL \div 2)
    /\ ctl_now' = ctl_now + (CacheTTL \div 2)
    /\ UNCHANGED <<ctl_gw, cache, ctl, reported_max>>
    /\ UNCHANGED notCtlVars

\* the thread returns data: the response is kept, the locals are gone
Respond(t, data, failed, stored) ==
    [CtlIdle EXCEPT !.last = [returned |-> data, fetch_failed |-> failed,
                              stored |-> stored, seen |-> ctl[t].seen]]

ReportedAfter(data) ==
    IF PhaseRank(data.phase) > reported_max THEN PhaseRank(data.phase) ELSE reported_max

\* an except branch that lets the exception reach the caller
FallbackReraises == [phase |-> "raise", gameweek |-> 0, degraded |-> FALSE]

\* the except branch: "Return cached data if available"
Fallback == IF cache.data # NoData THEN cache.data ELSE Unknown

\* now = time.time() and "Return cached data if valid"
CtlStart(t) ==
    /\ ctl[t].pc = "idle"
    /\ IF cache.data # NoData /\ (ctl_now - cache.timestamp) < CacheTTL
       THEN /\ ctl' = [ctl EXCEPT ![t] =
                         [CtlIdle EXCEPT !.last = [returned |-> cache.data,
                                                   fetch_failed |-> FALSE,
                                                   stored |-> FALSE,
                                                   seen |-> reported_max]]]
            /\ reported_max' = ReportedAfter(cache.data)
       ELSE /\ ctl' = [ctl EXCEPT ![t] = [CtlIdle EXCEPT !.pc = "bootstrap",
                                                         !.now = ctl_now,
                                                         !.seen = reported_max]]
            /\ UNCHANGED reported_max
    /\ UNCHANGED <<ctl_gw, ctl_now, cache>>
    /\ UNCHANGED notCtlVars

\* "Get current gameweek": the bootstrap fetch
CtlBootstrap(t) ==
    /\ ctl[t].pc = "bootstrap"
    /\ \E ok \in BOOLEAN :
         IF ok
         THEN /\ ctl' = [ctl EXCEPT ![t].pc = "phase", ![t].current_gw = ctl_gw]
              /\ UNCHANGED reported_max
         ELSE /\ ctl' = [ctl EXCEPT ![t] = Respond(t, Fallback, TRUE, FALSE)]
              /\ reported_max' = ReportedAfter(Fallback)
    /\ UNCHANGED <<ctl_gw, ctl_now, cache>>
    /\ UNCHANGED notCtlVars

\* what the branch of the phase computes from its fetches: a result, or Raise
QualificationResult(gw, standings_ok, fixtures_ok, is_live, live_ok) ==
    IF ~standings_ok THEN Raise
    ELSE IF fixtures_ok /\ is_live /\ ~live_ok THEN Raise
    ELSE [phase |-> "qualification", gameweek |-> gw, degraded |-> ~fixtures_ok]

\* elim_data is None (standings = qualified) when get_elimination_standings
\* could not fetch bootstrap or live data
EliminationResult(gw, elim_ok, fixtures_ok) ==
    [phase |-> "elimination", gameweek |-> gw, degraded |-> ~elim_ok \/ ~fixtures_ok]

ChampionshipResult(gw) ==
    [phase |-> "championship", gameweek |-> gw, degraded |-> FALSE]

\* the branch of the phase, "Cache the result" and the return, or the except branch
CtlPhase(t) ==
    /\ ctl[t].pc = "phase"
    /\ \E standings_ok, fixtures_ok, is_live, live_ok, elim_ok \in BOOLEAN :
         LET gw == ctl[t].current_gw
             phase == PhaseOf(gw)
             result == IF phase = "qualification"
                       THEN QualificationResult(gw, standings_ok, fixtures_ok,
                                                is_live, live_ok)
                       ELSE IF phase = "elimination"
                       THEN EliminationResult(gw, elim_ok, fixtures_ok)
                       ELSE ChampionshipResult(gw)
             failed == IF phase = "qualification"
                       THEN ~standings_ok \/ ~fixtures_ok
                            \/ (fixtures_ok /\ is_live /\ ~live_ok)
                       ELSE IF phase = "elimination" THEN ~elim_ok \/ ~fixtures_ok
                       ELSE FALSE
         IN  \* the inputs a branch does not read are fixed
             /\ phase # "qualification" => standings_ok /\ is_live /\ live_ok
             /\ phase # "elimination" => elim_ok
             /\ phase = "championship" => fixtures_ok
             /\ phase = "qualification" /\ ~standings_ok => fixtures_ok /\ is_live /\ live_ok
             /\ phase = "qualification" /\ ~(fixtures_ok /\ is_live) => live_ok
             /\ phase = "qualification" /\ ~fixtures_ok => is_live
             /\ IF result = Raise
                THEN /\ ctl' = [ctl EXCEPT ![t] = Respond(t, Fallback, TRUE, FALSE)]
                     /\ reported_max' = ReportedAfter(Fallback)
                     /\ UNCHANGED cache
                ELSE /\ cache' = [data |-> result, timestamp |-> ctl[t].now]
                     /\ ctl' = [ctl EXCEPT ![t] = Respond(t, result, failed, TRUE)]
                     /\ reported_max' = ReportedAfter(result)
    /\ UNCHANGED <<ctl_gw, ctl_now>>
    /\ UNCHANGED notCtlVars

CtlNext ==
    \/ CtlAdvanceGW
    \/ Tick
    \/ \E t \in Threads : CtlStart(t)
    \/ \E t \in Threads : CtlBootstrap(t)
    \/ \E t \in Threads : CtlPhase(t)

-----------------------------------------------------------------------------
(* Live elements: calculate_projected_bonus for the players of one fixture  *)
(* and the loop that builds live_elements from the projected and the        *)
(* official bonus (core/the100.py).                                         *)

\* bound: the players of the fixture that enter the projection
MaxBonusPlayers == 4

BpsValues == {10, 20, 30, 40}
OfficialValues == {0, 3}
BasePoints == 2

BonusPlayers == 1..MaxBonusPlayers

RECURSIVE UniqueDesc(_)
\* group.sort_values(by='bps', ascending=False)['bps'].unique()
UniqueDesc(S) ==
    IF S = {} THEN <<>>
    ELSE LET top == CHOOSE x \in S : \A y \in S : y <= x
         IN  <<top>> \o UniqueDesc(S \ {top})

RECURSIVE AssignWalk(_, _, _, _, _)
\* "for bps_score in unique_bps": the bonus of each bps score
AssignWalk(bps, unique_bps, i, position, bonus_of) ==
    IF i > Len(unique_bps) \/ position > 3 THEN bonus_of
    ELSE LET bps_score == unique_bps[i]
             num == Cardinality({p \in DOMAIN bps : bps[p] = bps_score})
         IN  IF position = 1
             THEN AssignWalk(bps, unique_bps, i + 1,
                             position + (IF num > 1 THEN 2 ELSE 1),
                             [bonus_of EXCEPT ![bps_score] = 3])
             ELSE IF position = 2
             THEN AssignWalk(bps, unique_bps, i + 1,
                             IF position + num < 4 THEN position + num ELSE 4,
                             [bonus_of EXCEPT ![bps_score] = 2])
             ELSE AssignWalk(bps, unique_bps, i + 1, position + 1,
                             [bonus_of EXCEPT ![bps_score] = 1])

\* the bonus column of the group after assign_bonus_points
assign_bonus_points(bps) ==
    LET scores == {bps[p] : p \in DOMAIN bps}
        bonus_of == AssignWalk(bps, UniqueDesc(scores), 1, 1, [x \in scores |-> 0])
    IN  [p \in DOMAIN bps |-> bonus_of[bps[p]]]

\* a version that counts the official bonus on top of the projected one
actual_bonus_added(official_bonus, projected_bonus) == official_bonus + projected_bonus

\* "Use projected bonus if official isn't set yet"
actual_bonus(official_bonus, projected_bonus) ==
    IF official_bonus > 0 THEN official_bonus ELSE projected_bonus

\* stats.total_points of the live data: it includes the official bonus
StatsTotal(p) == BasePoints + bn_official[p]

NoBonus == [p \in BonusPlayers |-> 0]
NoLive == [p \in BonusPlayers |-> [total_points |-> 0, bonus |-> 0]]

BonusInit ==
    /\ bn_pc = "fetched"
    /\ bn_gw_started \in BOOLEAN
    /\ bn_bps \in [BonusPlayers -> BpsValues]
    /\ bn_official \in [BonusPlayers -> OfficialValues]
    /\ bn_projected = NoBonus
    /\ live_elements = NoLive

\* bonus_points = calculate_projected_bonus(live_data, fixtures) if gw_started else {}
BonusProject ==
    /\ bn_pc = "fetched"
    /\ bn_projected' = IF bn_gw_started THEN assign_bonus_points(bn_bps) ELSE NoBonus
    /\ bn_pc' = "projected"
    /\ UNCHANGED <<bn_gw_started, bn_bps, bn_official, live_elements>>
    /\ UNCHANGED notBonusVars

\* "for elem in live_data['elements']"
BonusBuild ==
    /\ bn_pc = "projected"
    /\ live_elements' =
         [p \in BonusPlayers |->
            LET official_bonus == bn_official[p]
                projected_bonus == bn_projected[p]
                base_points == StatsTotal(p) - official_bonus
            IN  [total_points |-> base_points + actual_bonus(official_bonus, projected_bonus),
                 bonus |-> actual_bonus(official_bonus, projected_bonus)]]
    /\ bn_pc' = "built"
    /\ UNCHANGED <<bn_gw_started, bn_bps, bn_official, bn_projected>>
    /\ UNCHANGED notBonusVars

BonusNext == BonusProject \/ BonusBuild

-----------------------------------------------------------------------------
(* calculate_live_points for one manager (core/the100.py): the captain and   *)
(* vice-captain multipliers, the team-done test on the fixtures, and the     *)
(* auto-substitution scan of the part above run to its end.                  *)

\* bound: evaluations of one snapshot
MaxPolls == 2

\* player_info: the squad is a 4-4-2 with the bench GK, DEF, MID, FWD; the
\* element id of a pick is its place in the roster
player_position(e) ==
    IF e \in {1, 12} THEN PosGK
    ELSE IF e \in {2, 3, 4, 5, 13} THEN PosDEF
    ELSE IF e \in {6, 7, 8, 9, 14} THEN PosMID
    ELSE PosFWD

player_team(e) == ((e - 1) % 4) + 1

CaptainPick == 10
VicePick == 7

\* picks that may have 0 minutes although their fixture has started
MayMiss == {CaptainPick, VicePick, 2, 13, 14}

FixtureStates == {"scheduled", "live", "provisional", "finished", "postponed"}

Fixture(h, a, st) ==
    [team_h |-> h, team_a |-> a,
     started |-> st \in {"live", "provisional", "finished"},
     finished_provisional |-> st \in {"provisional", "finished"},
     finished |-> st = "finished",
     kickoff_time_none |-> st = "postponed"]

Chips == {"none", "3xc", "bboost"}
Hits == {0, 4}

\* "check if ALL of a team's fixtures are complete or postponed"
are_all_team_fixtures_done(fixtures, team_id) ==
    LET team_fixtures == {f \in fixtures : f.team_h = team_id \/ f.team_a = team_id}
    IN  \/ team_fixtures = {}
        \/ \A f \in team_fixtures : f.started \/ f.kickoff_time_none

\* a snapshot: two fixtures (teams 1-2 and 3-4); a player has minutes and points
\* only if a fixture of the team has started and the player is not among missed
Snapshot(st1, st2, missed, chip, hits) ==
    LET fixtures == {Fixture(1, 2, st1), Fixture(3, 4, st2)}
        plays(e) == /\ e \notin missed
                    /\ \E f \in fixtures :
                         /\ f.team_h = player_team(e) \/ f.team_a = player_team(e)
                         /\ f.started
    IN  [picks_data |-> [picks |-> [i \in 1..NumPicks |->
                                      [element |-> i,
                                       is_captain |-> i = CaptainPick,
                                       is_vice_captain |-> i = VicePick]],
                         active_chip |-> chip,
                         event_transfers_cost |-> hits],
         live_elements |-> [e \in 1..NumPicks |->
                              [minutes |-> IF plays(e) THEN 90 ELSE 0,
                               total_points |-> IF plays(e) THEN e ELSE 0]],
         fixtures |-> fixtures]

\* the picks as the scan reads them: position, minutes, team done, points
ScanPicks(in) ==
    [i \in 1..NumPicks |->
        LET e == in.picks_data.picks[i].element
        IN  [position |-> player_position(e),
             minutes |-> in.live_elements[e].minutes,
             team_done |-> are_all_team_fixtures_done(in.fixtures, player_team(e)),
             total_points |-> in.live_elements[e].total_points]]

RECURSIVE SubsWalk(_, _, _, _)
\* "for starter in non_playing", from place i of the list on
SubsWalk(pk, np, i, st) ==
    IF i > Len(np) THEN st
    ELSE LET r == BenchScan("the100", pk, np[i], NumStarters + 1,
                            st.formation, st.used_bench_ids)
         IN  SubsWalk(pk, np, i + 1,
                 [formation |-> r.formation,
                  used_bench_ids |-> IF r.kind = "none" THEN st.used_bench_ids
                                     ELSE st.used_bench_ids \cup {r.bench},
                  sub_points |-> IF r.kind = "swap"
                                 THEN st.sub_points + pk[r.bench].total_points
                                 ELSE st.sub_points,
                  swaps |-> IF r.kind = "swap" THEN Append(st.swaps, <<np[i], r.bench>>)
                            ELSE st.swaps])

\* accumulators that outlive the call
entry_locals_kept(prev) ==
    [used_bench_ids |-> prev.used_bench_ids, sub_points |-> prev.sub_points]

\* "used_bench_ids = set()" and "sub_points = 0": fresh in every call
entry_locals(prev) == [used_bench_ids |-> {}, sub_points |-> 0]

calculate_auto_subs(pk, locals) ==
    SubsWalk(pk, NonPlaying("the100", pk), 1,
             [formation |-> CountStarters(pk),
              used_bench_ids |-> locals.used_bench_ids,
              sub_points |-> locals.sub_points,
              swaps |-> <<>>])

\* a vice-captain who is only ever doubled
pick_mult_vice_doubled(pick, chip, captain_played, captain_team_done, vc_minutes, vc_team_done) ==
    IF pick.is_captain
    THEN IF captain_played THEN (IF chip = "3xc" THEN 3 ELSE 2)
         ELSE IF captain_team_done THEN 0 ELSE 1
    ELSE IF pick.is_vice_captain
    THEN IF captain_team_done /\ ~captain_played
         THEN IF vc_minutes > 0 THEN 2
              ELSE IF vc_team_done THEN 0 ELSE 1
         ELSE 1
    ELSE 1

\* a vice-captain who takes over whenever the captain has no minutes
pick_mult_vice_for_absent_captain(pick, chip, captain_played, captain_team_done, vc_minutes, vc_team_done) ==
    IF pick.is_captain
    THEN IF captain_played THEN (IF chip = "3xc" THEN 3 ELSE 2)
         ELSE IF captain_team_done THEN 0 ELSE 1
    ELSE IF pick.is_vice_captain
    THEN IF ~captain_played
         THEN IF vc_minutes > 0 THEN (IF chip = "3xc" THEN 3 ELSE 2)
              ELSE IF vc_team_done THEN 0 ELSE 1
         ELSE 1
    ELSE 1

\* mult of one active pick
pick_mult(pick, chip, captain_played, captain_team_done, vc_minutes, vc_team_done) ==
    IF pick.is_captain
    THEN IF captain_played THEN (IF chip = "3xc" THEN 3 ELSE 2)
         ELSE IF captain_team_done THEN 0 ELSE 1
    ELSE IF pick.is_vice_captain
    THEN IF captain_team_done /\ ~captain_played
         THEN IF vc_minutes > 0 THEN (IF chip = "3xc" THEN 3 ELSE 2)
              ELSE IF vc_team_done THEN 0 ELSE 1
         ELSE 1
    ELSE 1

RECURSIVE SumSeq(_, _)
SumSeq(f, n) == IF n = 0 THEN 0 ELSE f[n] + SumSeq(f, n - 1)

\* the total without the test "if chip != 'bboost'" before the substitutions
calculate_live_points_always_subs(in, locals) ==
    LET picks_ == in.picks_data.picks
        chip == in.picks_data.active_chip
        hits == in.picks_data.event_transfers_cost
        captains == {i \in DOMAIN picks_ : picks_[i].is_captain}
        captain_id == IF captains = {} THEN 0
                      ELSE picks_[CHOOSE i \in captains : \A j \in captains : i <= j].element
        captain_minutes == IF captain_id # 0 THEN in.live_elements[captain_id].minutes ELSE 0
        captain_played == captain_minutes > 0
        captain_team_done ==
            IF captain_id # 0
            THEN are_all_team_fixtures_done(in.fixtures, player_team(captain_id))
            ELSE FALSE
        active == IF chip = "bboost" THEN NumPicks ELSE NumStarters
        mult == [i \in 1..active |->
                    LET pid == picks_[i].element
                    IN  pick_mult(picks_[i], chip, captain_played, captain_team_done,
                                  in.live_elements[pid].minutes,
                                  are_all_team_fixtures_done(in.fixtures, player_team(pid)))]
        pts == [i \in 1..active |-> in.live_elements[picks_[i].element].total_points * mult[i]]
        subs == calculate_auto_subs(ScanPicks(in), locals)
    IN  [total_points |-> SumSeq(pts, active) + subs.sub_points - hits,
         mult |-> mult,
         sub_points |-> subs.sub_points,
         used_bench_ids |-> subs.used_bench_ids,
         swaps |-> subs.swaps]

\* the total, with the multipliers and the substitutions behind it
calculate_live_points(in, locals) ==
    LET picks_ == in.picks_data.picks
        chip == in.picks_data.active_chip
        hits == in.picks_data.event_transfers_cost
        captains == {i \in DOMAIN picks_ : picks_[i].is_captain}
        captain_id == IF captains = {} THEN 0
                      ELSE picks_[CHOOSE i \in captains : \A j \in captains : i <= j].element
        captain_minutes == IF captain_id # 0 THEN in.live_elements[captain_id].minutes ELSE 0
        captain_played == captain_minutes > 0
        captain_team_done ==
            IF captain_id # 0
            THEN are_all_team_fixtures_done(in.fixtures, player_team(captain_id))
            ELSE FALSE
        active == IF chip = "bboost" THEN NumPicks ELSE NumStarters
        mult == [i \in 1..active |->
                    LET pid == picks_[i].element
                    IN  pick_mult(picks_[i], chip, captain_played, captain_team_done,
                                  in.live_elements[pid].minutes,
                                  are_all_team_fixtures_done(in.fixtures, player_team(pid)))]
        pts == [i \in 1..active |-> in.live_elements[picks_[i].element].total_points * mult[i]]
        subs == IF chip # "bboost" THEN calculate_auto_subs(ScanPicks(in), locals)
                ELSE [formation |-> CountStarters(ScanPicks(in)),
                      used_bench_ids |-> locals.used_bench_ids,
                      sub_points |-> 0, swaps |-> <<>>]
    IN  [total_points |-> SumSeq(pts, active) + subs.sub_points - hits,
         mult |-> mult,
         sub_points |-> subs.sub_points,
         used_bench_ids |-> subs.used_bench_ids,
         swaps |-> subs.swaps]

NoEvaluation ==
    [total_points |-> 0, mult |-> <<>>, sub_points |-> 0, used_bench_ids |-> {},
     swaps |-> <<>>]

LiveInit ==
    /\ \E st1, st2 \in FixtureStates, missed \in SUBSET MayMiss,
          chip \in Chips, hits \in Hits :
         lv_in = Snapshot(st1, st2, missed, chip, hits)
    /\ lv_polls = 0
    /\ lv_out = NoEvaluation

\* one poll: calculate_live_points on the snapshot
LiveEval ==
    /\ lv_polls < MaxPolls
    /\ lv_out' = calculate_live_points(lv_in, entry_locals(lv_out))
    /\ lv_polls' = lv_polls + 1
    /\ UNCHANGED lv_in
    /\ UNCHANGED notLiveVars

LiveNext == LiveEval

\* a roster in which no pick carries the captain flag
WithoutCaptain(in) ==
    [in EXCEPT !.picks_data.picks =
        [i \in 1..NumPicks |-> [@[i] EXCEPT !.is_captain = FALSE]]]

\* picks that may be booked while an unused substitute of a started fixture:
\* 0 minutes and total_points -1 in the live stats map
MayBeBooked == {VicePick}

WithBooking(in, booked) ==
    [in EXCEPT !.live_elements =
        [e \in 1..NumPicks |->
            IF /\ e \in booked
               /\ @[e].minutes = 0
               /\ \E f \in in.fixtures :
                    /\ f.team_h = player_team(e) \/ f.team_a = player_team(e)
                    /\ f.started
            THEN [@[e] EXCEPT !.total_points = -1]
            ELSE @[e]]]

\* the snapshots, with rosters that have a captain and rosters that have none
LiveInitAnyRoster ==
    /\ \E st1, st2 \in FixtureStates, missed \in SUBSET MayMiss,
          chip \in Chips, hits \in Hits, has_captain \in BOOLEAN,
          booked \in SUBSET MayBeBooked :
         lv_in = WithBooking(
                   IF has_captain THEN Snapshot(st1, st2, missed, chip, hits)
                   ELSE WithoutCaptain(Snapshot(st1, st2, missed, chip, hits)),
                   booked)
    /\ lv_polls = 0
    /\ lv_out = NoEvaluation

RECURSIVE SubsWalkFinished(_, _, _, _)
\* "for starter in non_playing" of _calculate_auto_subs (core/backfill.py)
SubsWalkFinished(pk, np, i, st) ==
    IF i > Len(np) THEN st
    ELSE LET r == BenchScan("backfill", pk, np[i], NumStarters + 1,
                            st.formation, st.used)
         IN  SubsWalkFinished(pk, np, i + 1,
                 [formation |-> r.formation,
                  used |-> IF r.kind = "swap" THEN st.used \cup {r.bench} ELSE st.used,
                  sub_points |-> IF r.kind = "swap"
                                 THEN st.sub_points + pk[r.bench].total_points
                                 ELSE st.sub_points])

\* _calculate_auto_subs: the sub_points of a finished gameweek
_calculate_auto_subs(pk) ==
    SubsWalkFinished(pk, NonPlaying("backfill", pk), 1,
                     [formation |-> CountStarters(pk), used |-> {},
                      sub_points |-> 0]).sub_points

\* _calculate_manager_points: captain 2x, the vice-captain 2x when the captain
\* has no minutes, the substitutions, the hits subtracted
_calculate_manager_points(in) ==
    LET picks_ == in.picks_data.picks
        hits == in.picks_data.event_transfers_cost
        captains == {i \in DOMAIN picks_ : picks_[i].is_captain}
        captain_id == IF captains = {} THEN 0
                      ELSE picks_[CHOOSE i \in captains : \A j \in captains : i <= j].element
        captain_minutes == IF captain_id # 0 THEN in.live_elements[captain_id].minutes ELSE 0
        captain_played == captain_minutes > 0
        pts == [i \in 1..NumStarters |->
                  LET pid == picks_[i].element
                      raw == in.live_elements[pid].total_points
                  IN  IF picks_[i].is_captain
                      THEN IF captain_played THEN raw * 2 ELSE 0
                      ELSE IF picks_[i].is_vice_captain /\ ~captain_played
                      THEN IF in.live_elements[pid].minutes > 0 THEN raw * 2 ELSE raw
                      ELSE raw]
    IN  IF Len(picks_) = 0 THEN 0
        ELSE SumSeq(pts, NumStarters) + _calculate_auto_subs(ScanPicks(in)) - hits

-----------------------------------------------------------------------------
(* The elite league backfill (app.py backfill_elite_standings) over the      *)
(* league_points of standings_history. The fixture results and the result    *)
(* and opponent columns, which the function also repairs, hold no league     *)
(* points and are left out.                                                  *)

\* bounds: the last gameweek the provider reaches, and the failures injected
MaxEliteGW == 4
MaxEliteFaults == 1

\* entry_ids: the entries of the league standings
EliteEntries == {1, 2}

\* upstream: get_league_matches(LEAGUE_ID, gw)['results']
EliteMatches(gw) ==
    << [entry_1_entry |-> 1, entry_2_entry |-> 2,
        entry_1_points |-> 60 - 10 * gw,
        entry_2_points |-> IF gw = 3 THEN 60 ELSE 40] >>

\* events that are finished and data_checked
finished_gws(cur) == 1..(cur - 1)

\* GWs missing standings entirely
missing_standings(tbl, cur) ==
    {gw \in finished_gws(cur) : ~\E r \in tbl : r.gameweek = gw}

\* "Detect GWs where all league_points are 0"
zero_lp_gws(tbl, cur) ==
    {gw \in finished_gws(cur) :
        /\ \E r \in tbl : r.gameweek = gw
        /\ ~\E r \in tbl : r.gameweek = gw /\ r.league_points > 0}

\* save_standings(gw, standings_data) up to the commit, every team with
\* projected_league_points 0: existing rows updated, the others inserted
StageEliteStandings(tbl, gw) ==
    {r \in tbl : r.gameweek # gw}
        \cup {[gameweek |-> gw, entry_id |-> eid, league_points |-> 0] :
                eid \in EliteEntries}

\* cumulative_lp after the matches of one gameweek
AddMatchPoints(cumulative_lp, matches) ==
    [eid \in DOMAIN cumulative_lp |->
        cumulative_lp[eid]
        + SumSeq([i \in DOMAIN matches |->
                    LET p1 == matches[i].entry_1_points
                        p2 == matches[i].entry_2_points
                    IN  IF matches[i].entry_1_entry = eid
                        THEN (IF p1 > p2 THEN 3 ELSE IF p1 = p2 THEN 1 ELSE 0)
                        ELSE IF matches[i].entry_2_entry = eid
                        THEN (IF p2 > p1 THEN 3 ELSE IF p1 = p2 THEN 1 ELSE 0)
                        ELSE 0], Len(matches))]

\* "Update DB records for this GW if it needs LP fix": the rows found
UpdateLeaguePoints(tbl, gw, cumulative_lp) ==
    {IF r.gameweek = gw /\ r.entry_id \in DOMAIN cumulative_lp
     THEN [r EXCEPT !.league_points = cumulative_lp[r.entry_id]]
     ELSE r : r \in tbl}

ElIdle == [pc |-> "idle", missing_standings |-> {}, gws_needing_lp |-> {},
           gw |-> 0, cumulative_lp |-> [eid \in EliteEntries |-> 0]]

EliteInit ==
    /\ elite_gw = 2
    /\ standings_history = {}
    /\ elite_backfill_in_progress = FALSE
    /\ el = ElIdle
    /\ elite_faults = 0

\* the provider moves to the next gameweek
EliteAdvanceGW ==
    /\ el.pc = "idle"
    /\ elite_gw < MaxEliteGW
    /\ elite_gw' = elite_gw + 1
    /\ UNCHANGED <<standings_history, elite_backfill_in_progress, el, elite_faults>>
    /\ UNCHANGED notEliteVars

\* the guard, the detection of the gameweeks that need work, and the bootstrap
\* and league standings fetches; "if not all_gws_to_process and not zero_lp_gws:
\* return", and an exception of a fetch, go to the finally clause
EliteStart ==
    /\ el.pc = "idle"
    /\ ~elite_backfill_in_progress
    /\ elite_backfill_in_progress' = TRUE
    /\ \E fetch_ok \in BOOLEAN :
         LET missing == missing_standings(standings_history, elite_gw)
             zero == zero_lp_gws(standings_history, elite_gw)
         IN  /\ ~fetch_ok => elite_faults < MaxEliteFaults
             /\ elite_faults' = IF fetch_ok THEN elite_faults ELSE elite_faults + 1
             /\ el' = IF ~fetch_ok \/ (missing = {} /\ zero = {})
                      THEN [ElIdle EXCEPT !.pc = "finally"]
                      ELSE [ElIdle EXCEPT
                              !.pc = IF missing = {} THEN "lp" ELSE "standings",
                              !.missing_standings = missing,
                              !.gws_needing_lp = missing \cup zero,
                              !.gw = IF missing = {} THEN 1
                                     ELSE CHOOSE g \in missing : \A h \in missing : g <= h]
    /\ UNCHANGED <<elite_gw, standings_history>>
    /\ UNCHANGED notEliteVars

\* one gameweek of "for gw in all_gws_to_process" that needs standings: the
\* matches and picks fetches and save_standings; an exception skips the gameweek
EliteStandings ==
    /\ el.pc = "standings"
    /\ \E fetch_ok \in BOOLEAN, commit_ok \in BOOLEAN :
         LET rest == {g \in el.missing_standings : g > el.gw}
         IN  /\ ~fetch_ok => commit_ok
             /\ ~(fetch_ok /\ commit_ok) => elite_faults < MaxEliteFaults
             /\ elite_faults' = IF fetch_ok /\ commit_ok THEN elite_faults
                                ELSE elite_faults + 1
             /\ standings_history' =
                    IF fetch_ok /\ commit_ok
                    THEN StageEliteStandings(standings_history, el.gw)
                    ELSE standings_history
             /\ el' = IF rest = {}
                      THEN [el EXCEPT !.pc = "lp", !.gw = 1]
                      ELSE [el EXCEPT !.gw = CHOOSE g \in rest : \A h \in rest : g <= h]
    /\ UNCHANGED <<elite_gw, elite_backfill_in_progress>>
    /\ UNCHANGED notEliteVars

\* one gameweek of "for gw in sorted(finished_gws)" of the league points fix:
\* a matches fetch that fails skips the gameweek, its points and its update
EliteFixLeaguePoints ==
    /\ el.pc = "lp"
    /\ \E fetch_ok \in BOOLEAN, commit_ok \in BOOLEAN :
         LET max_gw_needed == CHOOSE g \in el.gws_needing_lp :
                                  \A h \in el.gws_needing_lp : h <= g
             cumulative_lp == IF fetch_ok
                              THEN AddMatchPoints(el.cumulative_lp, EliteMatches(el.gw))
                              ELSE el.cumulative_lp
             writes == fetch_ok /\ el.gw \in el.gws_needing_lp
         IN  /\ ~writes => commit_ok
             /\ ~(fetch_ok /\ commit_ok) => elite_faults < MaxEliteFaults
             /\ elite_faults' = IF fetch_ok /\ commit_ok THEN elite_faults
                                ELSE elite_faults + 1
             /\ standings_history' =
                    IF writes /\ commit_ok
                    THEN UpdateLeaguePoints(standings_history, el.gw, cumulative_lp)
                    ELSE standings_history
             /\ el' = IF el.gw + 1 > max_gw_needed \/ el.gw + 1 \notin finished_gws(elite_gw)
                      THEN [el EXCEPT !.pc = "finally", !.cumulative_lp = cumulative_lp]
                      ELSE [el EXCEPT !.gw = el.gw + 1, !.cumulative_lp = cumulative_lp]
    /\ UNCHANGED <<elite_gw, elite_backfill_in_progress>>
    /\ UNCHANGED notEliteVars

\* finally: _elite_backfill_in_progress = False
EliteFinally ==
    /\ el.pc = "finally"
    /\ elite_backfill_in_progress' = FALSE
    /\ el' = ElIdle
    /\ UNCHANGED <<elite_gw, standings_history, elite_faults>>
    /\ UNCHANGED notEliteVars

EliteNext ==
    \/ EliteAdvanceGW
    \/ EliteStart
    \/ EliteStandings
    \/ EliteFixLeaguePoints
    \/ EliteFinally

-----------------------------------------------------------------------------
(* The 100: the elimination zone of an elimination-phase result              *)
(* (core/the100.py get_the100_standings, "Mark elimination zone").           *)

\* the manager counts the registry may show at a gameweek: the scheduled number,
\* 6 fewer once the gameweek has been finalized, 6 more when the finalization of
\* the gameweek before did not happen
ActiveCounts(gw) ==
    LET scheduled == QualifiedSize - (gw - ELIMINATION_START_GW) * ELIMINATIONS_PER_GW
    IN  {n \in {scheduled - ELIMINATIONS_PER_GW, scheduled,
                scheduled + ELIMINATIONS_PER_GW} : n <= QualifiedSize}

\* minimum 16 for championship
ChampionshipSize == 16

\* the standings of the request: elim_data['standings'] with live_rank 1..n, or,
\* without elimination data, the qualified list, which has no live_rank
ZoneStandings(n, has_elim_data) ==
    [i \in 1..n |-> [qualification_rank |-> i,
                     live_rank |-> IF has_elim_data THEN i ELSE 0,
                     in_elimination_zone |-> FALSE,
                     is_safe |-> FALSE]]

remaining_managers(gw) ==
    LET elimination_gws_completed == gw - ELIMINATION_START_GW
        total_eliminated == elimination_gws_completed * ELIMINATIONS_PER_GW
    IN  IF QualifiedSize - total_eliminated > ChampionshipSize
        THEN QualifiedSize - total_eliminated ELSE ChampionshipSize

\* "Mark elimination zone (bottom 6)"
MarkZone(standings, gw) ==
    LET safe_count == remaining_managers(gw) - ELIMINATIONS_PER_GW
        elimination_zone_start == safe_count + 1
    IN  [i \in DOMAIN standings |->
            [standings[i] EXCEPT
                !.in_elimination_zone = standings[i].live_rank >= elimination_zone_start,
                !.is_safe = standings[i].live_rank <= safe_count]]

NoZoneResult == [total_managers |-> 0, remaining_managers |-> 0, is_live |-> FALSE]

ZoneInit ==
    /\ zn_pc = "fetched"
    /\ zn_gw \in ELIMINATION_START_GW..ELIMINATION_END_GW
    /\ \E n \in ActiveCounts(zn_gw), has_elim_data \in BOOLEAN :
         zn_standings = ZoneStandings(n, has_elim_data)
    /\ zn_result = NoZoneResult

\* the marking and the result built with it
ZoneMark ==
    /\ zn_pc = "fetched"
    /\ zn_pc' = "marked"
    /\ zn_standings' = MarkZone(zn_standings, zn_gw)
    /\ zn_result' = [total_managers |-> Len(zn_standings),
                     remaining_managers |-> remaining_managers(zn_gw),
                     is_live |-> \E i \in DOMAIN zn_standings :
                                     zn_standings[i].live_rank > 0]
    /\ UNCHANGED zn_gw
    /\ UNCHANGED notZoneVars

ZoneNext == ZoneMark

-----------------------------------------------------------------------------
(* The specifications: one per part, the other parts at rest *)

SubsIdle ==
    /\ variant = "the100"
    /\ picks = <<>>
    /\ subs_pc = "off"
    /\ non_playing = <<>>
    /\ next_starter = 1
    /\ formation = [d |-> 0, m |-> 0, f |-> 0, g |-> 0]
    /\ used_bench_ids = {}
    /\ sub_points = 0
    /\ swaps = <<>>

BfIdle ==
    /\ current_gw = BaseGW + 1
    /\ tls = {}
    /\ tlm = {}
    /\ backfill_in_progress = FALSE
    /\ bf = [t \in Threads |-> Idle]
    /\ faults = 0
    /\ first_run = {}

QualIdle ==
    /\ qual_standings = <<>>
    /\ qual_pc = "off"
    /\ qualified = <<>>

ElimIdle ==
    /\ the100_gw = ELIMINATION_START_GW
    /\ gw_final = FALSE
    /\ reg = <<>>
    /\ elims = {}
    /\ rq = [t \in Threads |-> RqIdle]
    /\ the100_faults = 0
    /\ first_seed = <<>>

CtlIdleState ==
    /\ ctl_gw = QUALIFICATION_END_GW
    /\ ctl_now = 0
    /\ cache = [data |-> NoData, timestamp |-> 0]
    /\ ctl = [t \in Threads |-> CtlIdle]
    /\ reported_max = 0

BonusIdle ==
    /\ bn_pc = "off"
    /\ bn_gw_started = FALSE
    /\ bn_bps = [p \in BonusPlayers |-> 10]
    /\ bn_official = NoBonus
    /\ bn_projected = NoBonus
    /\ live_elements = NoLive

LiveIdle ==
    /\ lv_in = Snapshot("scheduled", "scheduled", {}, "none", 0)
    /\ lv_polls = MaxPolls
    /\ lv_out = NoEvaluation

EliteIdle ==
    /\ elite_gw = 2
    /\ standings_history = {}
    /\ elite_backfill_in_progress = FALSE
    /\ el = ElIdle
    /\ elite_faults = 0

ZoneIdle ==
    /\ zn_pc = "off"
    /\ zn_gw = ELIMINATION_START_GW
    /\ zn_standings = <<>>
    /\ zn_result = NoZoneResult

InitSubs == SubsInit /\ BfIdle /\ QualIdle /\ ElimIdle /\ CtlIdleState /\ BonusIdle /\ LiveIdle /\ EliteIdle
    /\ ZoneIdle

SpecSubs == InitSubs /\ [][SubsNext]_vars

InitBackfill == BfInit /\ SubsIdle /\ QualIdle /\ ElimIdle /\ CtlIdleState /\ BonusIdle /\ LiveIdle /\ EliteIdle
    /\ ZoneIdle

SpecBackfill == InitBackfill /\ [][BfNext]_vars

\* a request thread that is inside the run keeps running: every fetch returns or
\* times out, every commit returns
BfRuns(t) ==
    \/ BfBootstrap(t) \/ BfFetch(t) \/ BfCommitStandings(t)
    \/ BfCommitMatches(t) \/ BfFinally(t)

SpecBackfillFair ==
    InitBackfill /\ [][BfNext]_vars /\ \A t \in Threads : WF_vars(BfRuns(t))

InitQual == QualInit /\ SubsIdle /\ BfIdle /\ ElimIdle /\ CtlIdleState /\ BonusIdle /\ LiveIdle /\ EliteIdle
    /\ ZoneIdle

SpecQual == InitQual /\ [][QualNext]_vars

InitElim == ElimInit /\ SubsIdle /\ BfIdle /\ QualIdle /\ CtlIdleState /\ BonusIdle /\ LiveIdle /\ EliteIdle
    /\ ZoneIdle

SpecElim == InitElim /\ [][ElimNext]_vars

InitCtl == CtlInit /\ SubsIdle /\ BfIdle /\ QualIdle /\ ElimIdle /\ BonusIdle /\ LiveIdle /\ EliteIdle
    /\ ZoneIdle

SpecCtl == InitCtl /\ [][CtlNext]_vars

InitBonus == BonusInit /\ SubsIdle /\ BfIdle /\ QualIdle /\ ElimIdle /\ CtlIdleState /\ LiveIdle /\ EliteIdle
    /\ ZoneIdle

SpecBonus == InitBonus /\ [][BonusNext]_vars

InitLive == LiveInit /\ SubsIdle /\ BfIdle /\ QualIdle /\ ElimIdle /\ CtlIdleState /\ BonusIdle /\ EliteIdle
    /\ ZoneIdle

SpecLive == InitLive /\ [][LiveNext]_vars

InitLiveAnyRoster == LiveInitAnyRoster /\ SubsIdle /\ BfIdle /\ QualIdle /\ ElimIdle /\ CtlIdleState /\ BonusIdle
    /\ EliteIdle /\ ZoneIdle

SpecLiveAnyRoster == InitLiveAnyRoster /\ [][LiveNext]_vars

InitSeason == SeasonInit /\ SubsIdle /\ BfIdle /\ QualIdle /\ CtlIdleState /\ BonusIdle /\ LiveIdle
    /\ EliteIdle /\ ZoneIdle

SpecSeason == InitSeason /\ [][SeasonNext]_vars

InitElite == EliteInit /\ SubsIdle /\ BfIdle /\ QualIdle /\ ElimIdle /\ CtlIdleState /\ BonusIdle /\ LiveIdle
    /\ ZoneIdle

SpecElite == InitElite /\ [][EliteNext]_vars

InitZone == ZoneInit /\ SubsIdle /\ BfIdle /\ QualIdle /\ ElimIdle /\ CtlIdleState /\ BonusIdle /\ LiveIdle
    /\ EliteIdle

SpecZone == InitZone /\ [][ZoneNext]_vars

-----------------------------------------------------------------------------
(* C1: in both variants of the auto-substitution scan, once the counts are  *)
(* taken and after every accepted substitution, the running formation      *)
(* counts satisfy g = 1, 3 <= d <= 5, 2 <= m <= 5, 1 <= f <= 3, and they   *)
(* are the counts of the lineup that results from the accepted swaps.      *)
LineupAfterSwaps ==
    LET out == {swaps[k][1] : k \in DOMAIN swaps}
        in_ == {swaps[k][2] : k \in DOMAIN swaps}
    IN  ((1..NumStarters) \ out) \cup in_

LineupCount(pos) == Cardinality({i \in LineupAfterSwaps : picks[i].position = pos})

C1_FormationAlwaysValid ==
    subs_pc \in {"scan", "done"} =>
        /\ formation.g = 1
        /\ 3 <= formation.d /\ formation.d <= 5
        /\ 2 <= formation.m /\ formation.m <= 5
        /\ 1 <= formation.f /\ formation.f <= 3
        /\ formation = [d |-> LineupCount(PosDEF), m |-> LineupCount(PosMID),
                        f |-> LineupCount(PosFWD), g |-> LineupCount(PosGK)]

\* a swap was accepted that changed the formation, after a candidate was turned
\* down by the formation gate
C1_Witness ==
    /\ subs_pc = "done"
    /\ Len(swaps) >= 1
    /\ formation # CountStarters(picks)
    /\ \E k \in DOMAIN swaps : swaps[k][2] > NumStarters + 2

-----------------------------------------------------------------------------
(* C2: at most one reconciliation run is inside the body for a league at any
   moment; a second trigger during an active run returns without writing. *)

C2_AtMostOneRunInBody ==
    Cardinality({t \in Threads : InBody(t)}) <= 1

-----------------------------------------------------------------------------
(* C7: a run over a gap list that an earlier run already went through, both of
   them complete, undisturbed and reading the same upstream data, leaves the rows of
   those periods exactly as the earlier run left them, one row per key; and a call
   with no missing period returns without any store write. *)

C7_RerunLeavesSameRows ==
    /\ [](\A t \in Threads : \A h \in first_run :
            (Undisturbed(t) /\ h.gws = bf[t].missing_gws) =>
                /\ RowsOf(bf[t].missing_gws) = h.rows
                /\ \A r1, r2 \in tls : StandingsKey(r1) = StandingsKey(r2) => r1 = r2
                /\ \A r1, r2 \in tlm : MatchKey(r1) = MatchKey(r2) => r1 = r2)
    /\ [][\A t \in Threads :
            (bf[t].pc = "call" /\ bf[t].missing_gws = <<>> /\ bf'[t] # bf[t]) =>
                /\ bf'[t].pc = "idle"
                /\ tls' = tls /\ tlm' = tlm
                /\ backfill_in_progress' = backfill_in_progress]_vars

C7_Witness ==
    \E t \in Threads : \E h \in first_run :
        /\ Undisturbed(t)
        /\ h.gws = bf[t].missing_gws
        /\ Len(h.gws) >= 2
        /\ h.rows.standings # {}
        /\ h.rows.matches # {}

-----------------------------------------------------------------------------
(* C8: gap detection returns every finished period that has no rows in the
   store, also one that lies before a period that is present. *)

C8_EveryMissingPeriodDetected ==
    \A g \in (BaseGW + 1)..(current_gw - 1) :
        {r \in tls : r.gameweek = g} = {} =>
            \E i \in DOMAIN detect_missing_gameweeks(tls, current_gw) :
                detect_missing_gameweeks(tls, current_gw)[i] = g

-----------------------------------------------------------------------------
(* C9: a run writes rows for a period only if the scoring fetches and the
   head-to-head fetch of that period both succeeded. *)

C9_RowsOnlyAfterBothFetches ==
    [][\A t \in Threads :
         (/\ bf[t].pc \in {"commit_standings", "commit_matches"}
          /\ bf'[t] # bf[t]
          /\ (tls' # tls \/ tlm' # tlm))
         => (bf[t].scoring_ok /\ bf[t].h2h_ok)]_vars

-----------------------------------------------------------------------------
(* C10: after a standings write for a period, also one whose commit failed, the
   store holds that period's rows for all teams or for none. *)

C10_AllTeamsOrNone ==
    \A g \in 1..(MaxGW + 1) :
        {r.team_name : r \in {x \in tls : x.gameweek = g}} \in {{}, Teams}

C10_Witness ==
    \E t \in Threads :
        /\ bf[t].pc = "commit_matches"
        /\ {r \in tls : r.gameweek = bf[t].missing_gws[bf[t].idx]} = {}
        /\ \E g \in 1..MaxGW : {r.team_name : r \in {x \in tls : x.gameweek = g}} = Teams

-----------------------------------------------------------------------------
(* C6: for a standings list of at least 100 rows that contains the champion, the
   qualified list is the 99 first other entries plus the champion when the
   champion is ranked outside the top 99, and the first 100 rows otherwise; in both
   cases 100 distinct entries, the champion among them. *)

QualifiedIds == {qualified[i].entry_id : i \in DOMAIN qualified}

ChampionRank ==
    LET p == CHOOSE q \in DOMAIN qual_standings :
                 qual_standings[q].entry = WINNER_ENTRY_ID
    IN  qual_standings[p].rank

BestOthers ==
    {qual_standings[p].entry : p \in
        {q \in DOMAIN qual_standings :
            /\ qual_standings[q].entry # WINNER_ENTRY_ID
            /\ Cardinality({r \in 1..(q - 1) :
                   qual_standings[r].entry # WINNER_ENTRY_ID}) < TopCutoff}}

C6_QualifiedSet ==
    qual_pc = "done" =>
        /\ Len(qualified) = QualifiedSize
        /\ Cardinality(QualifiedIds) = QualifiedSize
        /\ WINNER_ENTRY_ID \in QualifiedIds
        /\ IF ChampionRank > TopCutoff
           THEN QualifiedIds = BestOthers \cup {WINNER_ENTRY_ID}
           ELSE QualifiedIds = {qual_standings[p].entry : p \in 1..QualifiedSize}

C6_Witness ==
    /\ qual_pc = "done"
    /\ Len(qual_standings) > QualifiedSize
    /\ ChampionRank > QualifiedSize
    /\ (TopCutoff + 1) \in QualifiedIds
    /\ Len(qualified) = QualifiedSize

-----------------------------------------------------------------------------
(* C3: once a result row exists for a gameweek, a finalization attempt for that
   gameweek that begins afterwards, on the dashboard or in the admin route, writes
   nothing: the result rows and the elimination fields of the registry stay as
   they are. *)

EliminationFields(tbl) ==
    {<<tbl[i].entry_id, tbl[i].eliminated_gw, tbl[i].final_rank>> :
        i \in {j \in DOMAIN tbl : tbl[j].eliminated_gw # 0}}

C3_LaterAttemptWritesNothing ==
    [][\A t \in Threads :
         (/\ rq'[t] # rq[t]
          /\ \/ rq[t].late
             \/ rq'[t].late
             \/ rq'[t].result = "already_processed")
         => (/\ elims' = elims
             /\ EliminationFields(reg') = EliminationFields(reg))]_vars

C3_Witness ==
    \E t, u \in Threads :
        /\ rq[t].pc = "idle"
        /\ rq[t].result = "already_processed"
        /\ rq[u].late
        /\ rq[u].kind = "dash"
        /\ Cardinality({r \in elims : r.gameweek = the100_gw}) = ELIMINATIONS_PER_GW

-----------------------------------------------------------------------------
(* C4: a commit that processes a gameweek takes exactly 6 managers out of the
   active ones of the registry, and a commit for a gameweek that already has
   result rows takes none. *)

ActiveCount(tbl) == Len(SelectSeq(tbl, LAMBDA r : r.eliminated_gw = 0))

C4_ActiveShrinksByCohort ==
    [][\A t \in Threads :
         (rq[t].pc = "elim_commit" /\ rq'[t] # rq[t]) =>
             IF RowsExist(elims, rq[t].gw)
             THEN ActiveCount(reg') = ActiveCount(reg)
             ELSE RowsExist(elims', rq[t].gw) =>
                      ActiveCount(reg') = ActiveCount(reg) - ELIMINATIONS_PER_GW]_vars

-----------------------------------------------------------------------------
(* C5: once a seeding has been committed, the registry keeps exactly the rows of
   that first seeding, whatever further dashboard or init requests do. *)

C5_RegistryIsFirstSeeding ==
    first_seed # <<>> =>
        /\ Len(reg) = Len(first_seed)
        /\ \A i \in DOMAIN reg :
              /\ reg[i].entry_id = first_seed[i].entry_id
              /\ reg[i].qualification_rank = first_seed[i].qualification_rank
              /\ reg[i].is_winner = first_seed[i].is_winner

-----------------------------------------------------------------------------
(* C11: an elimination period is never finalized from incomplete data: when  *)
(* the live snapshot or the roster picks of an active manager could not be   *)
(* fetched, no elimination result row is written and no registry row gets    *)
(* the period as its elimination period.                                     *)

\* a request commits elimination rows or registry eliminations in this step
FinalizesBy(t) ==
    /\ rq[t].pc = "elim_commit"
    /\ rq'[t].pc = "idle"
    /\ \/ elims' # elims
       \/ EliminationFields(reg') # EliminationFields(reg)

C11_NoFinalizeFromIncompleteData ==
    [][\A t \in Threads : FinalizesBy(t) => rq[t].picks_failed = {}]_vars

-----------------------------------------------------------------------------
(* C12: in every phase, when an upstream fetch of the request fails and a    *)
(* successfully computed result is cached, get_the100_standings returns the  *)
(* cached result and leaves it in the cache.                                 *)

\* the request of t ends in this step
CtlReturns(t) == ctl[t].pc # "idle" /\ ctl'[t].pc = "idle"

C12_FailureServesCache ==
    [][\A t \in Threads :
          (/\ CtlReturns(t)
           /\ ctl'[t].last.fetch_failed
           /\ cache.data # NoData
           /\ ~cache.data.degraded)
          => (ctl'[t].last.returned = cache.data /\ cache' = cache)]_vars

-----------------------------------------------------------------------------
(* C16: the reported phase never moves backwards while the gameweek does not *)
(* decrease: a response does not report a phase earlier than one that had    *)
(* been reported before its request started.                                 *)

C16_PhaseNeverMovesBack ==
    \A t \in Threads :
        LET r == PhaseRank(ctl[t].last.returned.phase)
        IN  r > 0 => r >= ctl[t].last.seen

-----------------------------------------------------------------------------
(* C13: within one fixture the projected bonus of a player is determined by  *)
(* the number of players with strictly higher bps: none gives 3, one gives   *)
(* 2, two give 1, three or more give 0, for ties of any size.                *)

HigherBps(p) == Cardinality({q \in BonusPlayers : bn_bps[q] > bn_bps[p]})

BonusByPlace(higher) ==
    IF higher = 0 THEN 3 ELSE IF higher = 1 THEN 2 ELSE IF higher = 2 THEN 1 ELSE 0

C13_BonusByHigherBps ==
    (bn_pc = "projected" /\ bn_gw_started)
        => \A p \in BonusPlayers : bn_projected[p] = BonusByPlace(HigherBps(p))

-----------------------------------------------------------------------------
(* C19: the bonus in a player's live total is the official bonus when that   *)
(* is nonzero and the projected bonus only when the official bonus is zero;  *)
(* the two are never counted together.                                       *)

C19_OfficialBonusWins ==
    bn_pc = "built" =>
        \A p \in BonusPlayers :
            LET counted == live_elements[p].total_points - BasePoints
            IN  /\ bn_official[p] # 0 => counted = bn_official[p]
                /\ bn_official[p] = 0 => counted = bn_projected[p]
                /\ live_elements[p].bonus = counted

\* built elements with a player whose official bonus replaces a projected one and
\* a player whose projected bonus stands
C19_Witness ==
    /\ bn_pc = "built"
    /\ \E p \in BonusPlayers : bn_official[p] > 0 /\ bn_projected[p] > 0
    /\ \E p \in BonusPlayers : bn_official[p] = 0 /\ bn_projected[p] > 0

-----------------------------------------------------------------------------
(* C14: when the captain has 0 minutes, the captain's team is fully done and *)
(* the vice-captain has more than 0 minutes, the vice-captain's points are   *)
(* multiplied by the captain's multiplier (2, or 3 under triple captain) and *)
(* the captain's own points are not multiplied.                              *)

\* every fixture of the team in the period is finished or finished-provisional
TeamFullyDone(team_id) ==
    \A f \in lv_in.fixtures :
        (f.team_h = team_id \/ f.team_a = team_id)
            => (f.finished \/ f.finished_provisional)

ViceTakesOver ==
    /\ lv_polls >= 1
    /\ lv_in.live_elements[CaptainPick].minutes = 0
    /\ TeamFullyDone(player_team(CaptainPick))
    /\ lv_in.live_elements[VicePick].minutes > 0

C14_ViceGetsCaptainMultiplier ==
    ViceTakesOver =>
        /\ lv_out.mult[VicePick] = (IF lv_in.picks_data.active_chip = "3xc" THEN 3 ELSE 2)
        /\ lv_out.mult[CaptainPick] \in {0, 1}

C14_Witness ==
    /\ ViceTakesOver
    /\ lv_in.picks_data.active_chip = "3xc"
    /\ lv_out.mult[VicePick] = 3

-----------------------------------------------------------------------------
(* C17: a starter is substituted only if the starter has 0 minutes and every *)
(* fixture of the starter's team is finished or finished-provisional; a      *)
(* starter whose team has a fixture not started or in progress is never      *)
(* replaced. (A postponed fixture is not held against the team here.)        *)

TeamFinishedOrPostponed(team_id) ==
    \A f \in lv_in.fixtures :
        (f.team_h = team_id \/ f.team_a = team_id)
            => (f.finished \/ f.finished_provisional \/ f.kickoff_time_none)

C17_SubstitutedOnlyWhenTeamDone ==
    \A k \in DOMAIN lv_out.swaps :
        LET starter == lv_in.picks_data.picks[lv_out.swaps[k][1]].element
        IN  /\ lv_in.live_elements[starter].minutes = 0
            /\ TeamFinishedOrPostponed(player_team(starter))

-----------------------------------------------------------------------------
(* C18: calculate_live_points is deterministic and free of side effects: a   *)
(* second evaluation of the same snapshot returns the same total, and an     *)
(* evaluation changes none of its inputs.                                    *)

-----------------------------------------------------------------------------
(* C15: for every rebuilt period and every H2H pairing in it, the side with  *)
(* the strictly higher period score gets 3 league points and the other 0,    *)
(* equal scores give 1 each, and each team's persisted cumulative league     *)
(* points equal those of the immediately preceding period plus the points    *)
(* awarded in this period.                                                    *)

\* the period score of a team: the points of all its managers
PeriodScore(team, gw) ==
    SumOver(teams_fpl_ids[team], [e \in teams_fpl_ids[team] |-> ManagerPoints(e, gw)])

Opponents(team, gw) ==
    {other \in Teams \ {team} :
        \E i \in DOMAIN H2HResults(gw) :
            {entry_to_team(H2HResults(gw)[i].entry_1_entry),
             entry_to_team(H2HResults(gw)[i].entry_2_entry)} = {team, other}}

Awarded(team, gw) ==
    IF \E o \in Opponents(team, gw) : PeriodScore(team, gw) > PeriodScore(o, gw) THEN 3
    ELSE IF \E o \in Opponents(team, gw) : PeriodScore(team, gw) = PeriodScore(o, gw) THEN 1
    ELSE 0

PrecedingKnown(team, gw) ==
    \/ (gw - 1) \in DOMAIN standings_by_gw
    \/ \E r \in tls : r.gameweek = gw - 1 /\ r.team_name = team

PrecedingPoints(team, gw) ==
    IF (gw - 1) \in DOMAIN standings_by_gw THEN standings_by_gw[gw - 1][team]
    ELSE (CHOOSE r \in tls : r.gameweek = gw - 1 /\ r.team_name = team).league_points

C15_LeaguePointsOnPriorTotals ==
    \A r \in tls :
        PrecedingKnown(r.team_name, r.gameweek)
            => r.league_points = PrecedingPoints(r.team_name, r.gameweek)
                                 + Awarded(r.team_name, r.gameweek)

-----------------------------------------------------------------------------
(* C20: the per-league guard is held only while a run is executing: when a   *)
(* run that acquired it returns or raises the guard is released, so a later  *)
(* trigger is never blocked forever.                                         *)

C20_GuardReleased ==
    /\ [](backfill_in_progress => \E t \in Threads : InBody(t))
    /\ (backfill_in_progress ~> ~backfill_in_progress)

\* a run that failed and a run that went through have both ended, and the guard
\* is free
C20_Witness ==
    /\ \A t \in Threads : bf[t].pc = "idle"
    /\ ~backfill_in_progress
    /\ first_run # {}
    /\ faults > 0

-----------------------------------------------------------------------------
(* C21: after the qualified registry has been seeded, no step of a dashboard *)
(* or admin request adds or deletes a registry row, and the number of active *)
(* (not eliminated) managers never increases.                                *)

RegistryEntries(tbl) == {tbl[i].entry_id : i \in DOMAIN tbl}

C21_SeededRegistryOnlyShrinks ==
    [][reg # <<>> =>
          /\ RegistryEntries(reg') = RegistryEntries(reg)
          /\ Len(reg') = Len(reg)
          /\ ActiveCount(reg') <= ActiveCount(reg)]_vars

-----------------------------------------------------------------------------
(* C22: for every team or entry and every two stored periods p < q of a     *)
(* league, the stored cumulative league points at q are at least those at   *)
(* p, after any sequence of backfill runs, including runs that failed       *)
(* part-way.                                                                 *)

C22_LeaguePointsNeverDecrease ==
    /\ (\A t \in Threads : bf[t].pc = "idle") =>
          \A p, q \in tls :
              (p.team_name = q.team_name /\ p.gameweek < q.gameweek)
                  => p.league_points <= q.league_points
    /\ el.pc = "idle" =>
          \A p, q \in standings_history :
              (p.entry_id = q.entry_id /\ p.gameweek < q.gameweek)
                  => p.league_points <= q.league_points

-----------------------------------------------------------------------------
(* C23: elimination rows and registry eliminations are written for a period  *)
(* only once the period is conclusively finished (its fixtures are past the  *)
(* finish buffer), on the dashboard and in the admin route alike.            *)

\* the gameweek is over: an earlier one, or the current one past the buffer
PeriodFinal(gw) == gw < the100_gw \/ (gw = the100_gw /\ gw_final)

C23_FinalizeOnlyWhenFinal ==
    [][\A t \in Threads : FinalizesBy(t) => PeriodFinal(rq[t].gw)]_vars

-----------------------------------------------------------------------------
(* C24: when rebuilding a gap period fails, the walk stops: the run writes   *)
(* no row for that period or for a later gap and leaves the rows of the      *)
(* earlier gaps as they are, and the detection that follows the run still    *)
(* reports the failed period and every later gap of the run as missing.      *)

\* the gameweeks detect_missing_gameweeks reports
Reported(store, cur) ==
    {detect_missing_gameweeks(store, cur)[i] :
        i \in DOMAIN detect_missing_gameweeks(store, cur)}

C24_FailedGapStopsTheWalk ==
    /\ [][\A t \in Threads :
            (bf'[t] # bf[t] /\ InBody(t) /\ (tls' # tls \/ tlm' # tlm))
                => bf'[t].failed_at = 0]_vars
    /\ [](\A t \in Threads :
            (bf[t].pc = "finally" /\ bf[t].failed_at # 0 /\ ~bf[t].overlapped)
                => \A i \in bf[t].failed_at..Len(bf[t].missing_gws) :
                       bf[t].missing_gws[i] \in Reported(tls, current_gw))

-----------------------------------------------------------------------------
(* C25: in an elimination period the active managers are ranked by points    *)
(* descending and, among equal points, by qualification rank ascending; the  *)
(* cohort that finalization eliminates is the last 6 of that ranking: the 6  *)
(* lowest scores, a tie at the cut going against the manager with the higher *)
(* qualification rank number. The stored ranks of the eliminated are the     *)
(* last 6 positions, in that order.                                          *)

\* the score the standings of request t give the manager at position i of its
\* active list
ElimScore(t, i) ==
    LivePoints(rq[t].qualified[i].entry_id, rq[t].snap, rq[t].picks_failed)

\* i is listed above j: more points, or equal points and the lower qualification rank
ListedAbove(t, i, j) ==
    \/ ElimScore(t, i) > ElimScore(t, j)
    \/ /\ ElimScore(t, i) = ElimScore(t, j)
       /\ rq[t].qualified[i].qualification_rank < rq[t].qualified[j].qualification_rank

\* the positions, in the active list of request t, of the managers it eliminates
Cohort(t) ==
    {i \in DOMAIN rq[t].qualified :
        \E k \in DOMAIN rq[t].eliminated_list :
            rq[t].eliminated_list[k].entry_id = rq[t].qualified[i].entry_id}

\* the entry of the eliminated list for the manager at position i
EliminatedAs(t, i) ==
    rq[t].eliminated_list[CHOOSE k \in DOMAIN rq[t].eliminated_list :
        rq[t].eliminated_list[k].entry_id = rq[t].qualified[i].entry_id]

C25_CohortIsLastSixByPointsThenRank ==
    \A t \in Threads :
        rq[t].pc = "elim_commit" =>
            LET n == Len(rq[t].qualified)
                cohort == Cohort(t)
            IN  /\ Len(rq[t].eliminated_list) = ELIMINATIONS_PER_GW
                /\ Cardinality(cohort) = ELIMINATIONS_PER_GW
                /\ \A i \in cohort : \A j \in (1..n) \ cohort : ~ListedAbove(t, i, j)
                /\ {EliminatedAs(t, i).gw_rank : i \in cohort}
                       = (n - ELIMINATIONS_PER_GW + 1)..n
                /\ \A i \in cohort :
                      /\ EliminatedAs(t, i).gw_points = ElimScore(t, i)
                      /\ \A j \in cohort :
                            ListedAbove(t, i, j) =>
                                EliminatedAs(t, i).gw_rank < EliminatedAs(t, j).gw_rank

\* a finalization in which managers on both sides of the cut have equal points,
\* and some of the eliminated have fewer
C25_Witness ==
    \E t \in Threads :
        /\ rq[t].pc = "elim_commit"
        /\ LET cohort == Cohort(t)
           IN  /\ \E i \in cohort :
                     \E j \in DOMAIN rq[t].qualified \ cohort :
                         ElimScore(t, i) = ElimScore(t, j)
               /\ \E i, j \in cohort : ElimScore(t, i) < ElimScore(t, j)

\* the claim as stated: most at risk first by (score ascending, qualification
\* rank ascending)
MoreAtRiskAsStated(t, i, j) ==
    \/ ElimScore(t, i) < ElimScore(t, j)
    \/ /\ ElimScore(t, i) = ElimScore(t, j)
       /\ rq[t].qualified[i].qualification_rank < rq[t].qualified[j].qualification_rank

\* the eliminated are the 6 most at risk of that order: nobody who stays is more
\* at risk than one who goes
C25_CohortByScoreThenRankAscending ==
    \A t \in Threads :
        rq[t].pc = "elim_commit" =>
            LET cohort == Cohort(t)
            IN  /\ Cardinality(cohort) = ELIMINATIONS_PER_GW
                /\ \A i \in cohort : \A j \in DOMAIN rq[t].qualified \ cohort :
                      ~MoreAtRiskAsStated(t, j, i)

-----------------------------------------------------------------------------
(* C26: in every elimination-phase result the managers flagged               *)
(* in_elimination_zone are exactly the 6 lowest-ranked managers of the       *)
(* returned standings, whatever the number of managers still active and      *)
(* whether or not live data was available.                                   *)

InZone == {i \in DOMAIN zn_standings : zn_standings[i].in_elimination_zone}

C26_ZoneIsBottomSix ==
    zn_pc = "marked" =>
        InZone = {i \in DOMAIN zn_standings :
                     i > Len(zn_standings) - ELIMINATIONS_PER_GW}

-----------------------------------------------------------------------------
(* C27: when the captain has 0 minutes and the captain's team still has an   *)
(* unfinished fixture (one that is neither finished nor postponed), the      *)
(* captain's points and the vice-captain's points both count at multiplier   *)
(* 1: the vice-captain does not get the captain multiplier yet.              *)

CaptainPending ==
    /\ lv_polls >= 1
    /\ lv_in.live_elements[CaptainPick].minutes = 0
    /\ ~TeamFinishedOrPostponed(player_team(CaptainPick))

C27_PendingCaptainKeepsMultiplierOne ==
    CaptainPending =>
        /\ lv_out.mult[CaptainPick] = 1
        /\ lv_out.mult[VicePick] = 1

-----------------------------------------------------------------------------
(* C28: a bench candidate that is position-compatible with the starter and   *)
(* unused, has 0 minutes and whose team is not yet done is reserved: the     *)
(* search for this starter stops at it, so no bench player of lower priority *)
(* is accepted past such a candidate.                                        *)

\* goalkeeper for goalkeeper, outfield for outfield
Compatible(s, b) == (player_position(s) = PosGK) <=> (player_position(b) = PosGK)

\* bench pick c should have been held: 0 minutes, a fixture of the team still
\* unfinished, and never used in the scan
ShouldBeHeld(c) ==
    /\ lv_in.live_elements[c].minutes = 0
    /\ ~TeamFinishedOrPostponed(player_team(c))
    /\ c \notin lv_out.used_bench_ids

C28_SearchStopsAtReservedCandidate ==
    \A k \in DOMAIN lv_out.swaps :
        LET s == lv_out.swaps[k][1]
            b == lv_out.swaps[k][2]
        IN  \A c \in (NumStarters + 1)..(b - 1) :
                ~(Compatible(s, c) /\ ShouldBeHeld(c))

-----------------------------------------------------------------------------
(* C29: the starters with 0 minutes are processed in roster order; when a    *)
(* substitute is accepted for one of them it is the first bench player, in   *)
(* bench priority order, that is position-compatible, not used for an        *)
(* earlier starter, has more than 0 minutes and keeps the formation within   *)
(* bounds; no bench player is accepted twice, and an accepted substitute     *)
(* adds exactly its own points, unmultiplied.                                *)

WithinBounds(fm) ==
    /\ fm.g = 1
    /\ fm.d \in MinDef..MaxDef
    /\ fm.m \in MinMid..MaxMid
    /\ fm.f \in MinFwd..MaxFwd

\* bench pick b qualifies as the substitute of starter s in the current state
Acceptable(s, b) ==
    /\ b \in (NumStarters + 1)..NumPicks
    /\ (picks[s].position = PosGK) <=> (picks[b].position = PosGK)
    /\ b \notin used_bench_ids
    /\ picks[b].minutes > 0
    /\ WithinBounds(SwapCounts(formation, picks[s].position, picks[b].position))

RosterOrder ==
    /\ \A i, j \in DOMAIN non_playing : i < j => non_playing[i] < non_playing[j]
    /\ \A i, j \in DOMAIN swaps : i < j => swaps[i][1] < swaps[j][1]

AcceptedOnce ==
    \A i, j \in DOMAIN swaps : i # j => swaps[i][2] # swaps[j][2]

AcceptsFirstAcceptable ==
    (subs_pc = "scan" /\ swaps' # swaps) =>
        \E b \in (NumStarters + 1)..NumPicks :
            LET s == non_playing[next_starter]
            IN  /\ swaps' = Append(swaps, <<s, b>>)
                /\ Acceptable(s, b)
                /\ \A c \in (NumStarters + 1)..(b - 1) : ~Acceptable(s, c)
                /\ sub_points' = sub_points + picks[b].total_points
                /\ formation' = SwapCounts(formation, picks[s].position, picks[b].position)
                /\ next_starter' = next_starter + 1

C29_FirstAcceptableBenchPlayer ==
    [](RosterOrder /\ AcceptedOnce) /\ [][AcceptsFirstAcceptable]_vars

\* two starters replaced, the second by a bench player of lower priority than one
\* who played and was passed over for the formation
C29_Witness ==
    /\ subs_pc = "done"
    /\ variant = "the100"
    /\ Len(swaps) = 2
    /\ \E c \in (NumStarters + 1)..NumPicks :
          /\ c < swaps[2][2]
          /\ c \notin used_bench_ids
          /\ picks[c].minutes > 0
          /\ (picks[c].position = PosGK) <=> (picks[swaps[2][1]].position = PosGK)

-----------------------------------------------------------------------------
(* C30: with the bench-boost chip the total counts all 15 picks and no       *)
(* substitution points are added; with any other chip or none the total      *)
(* counts the 11 starters and adds the points of the substitutes.            *)

\* points of the first n picks, each with the multiplier of the evaluation
CountedPoints(n) ==
    SumSeq([i \in 1..n |->
               lv_in.live_elements[lv_in.picks_data.picks[i].element].total_points
                   * lv_out.mult[i]], n)

\* points of the bench players brought in, unmultiplied
SwappedInPoints ==
    SumSeq([k \in DOMAIN lv_out.swaps |->
               lv_in.live_elements[lv_out.swaps[k][2]].total_points], Len(lv_out.swaps))

C30_BenchBoostCountsAllFifteen ==
    lv_polls > 0 =>
        IF lv_in.picks_data.active_chip = "bboost"
        THEN /\ Len(lv_out.mult) = NumPicks
             /\ lv_out.swaps = <<>>
             /\ lv_out.sub_points = 0
             /\ lv_out.total_points =
                    CountedPoints(NumPicks) - lv_in.picks_data.event_transfers_cost
        ELSE /\ Len(lv_out.mult) = NumStarters
             /\ lv_out.sub_points = SwappedInPoints
             /\ lv_out.total_points =
                    CountedPoints(NumStarters) + lv_out.sub_points
                        - lv_in.picks_data.event_transfers_cost

\* bench boost played while a starter of a started fixture has 0 minutes and a
\* compatible bench player has played: a substitution would have been made
C30_Witness ==
    /\ lv_polls > 0
    /\ lv_in.picks_data.active_chip = "bboost"
    /\ lv_in.live_elements[2].minutes = 0
    /\ are_all_team_fixtures_done(lv_in.fixtures, player_team(2))
    /\ lv_in.live_elements[13].minutes > 0

-----------------------------------------------------------------------------
(* C31: for a roster in which no pick is flagged captain, every counted pick *)
(* (the vice-captain included) has multiplier 1, and the evaluation still    *)
(* returns a total: the plain sum of the counted picks plus the substitution *)
(* points minus the transfer cost.                                           *)

NoCaptainFlag ==
    \A i \in DOMAIN lv_in.picks_data.picks : ~lv_in.picks_data.picks[i].is_captain

\* points of the first n picks, unmultiplied
PlainPoints(n) ==
    SumSeq([i \in 1..n |->
               lv_in.live_elements[lv_in.picks_data.picks[i].element].total_points], n)

C31_NoCaptainAllMultipliersOne ==
    (lv_polls > 0 /\ NoCaptainFlag) =>
        LET n == IF lv_in.picks_data.active_chip = "bboost" THEN NumPicks ELSE NumStarters
        IN  /\ Len(lv_out.mult) = n
            /\ \A i \in 1..n : lv_out.mult[i] = 1
            /\ lv_out.total_points =
                   PlainPoints(n) + lv_out.sub_points
                       - lv_in.picks_data.event_transfers_cost

\* no captain flag, the vice-captain has played, triple captain is active
C31_Witness ==
    /\ lv_polls > 0
    /\ NoCaptainFlag
    /\ lv_in.picks_data.active_chip = "3xc"
    /\ lv_in.live_elements[VicePick].minutes > 0
    /\ lv_in.live_elements[CaptainPick].minutes = 0
    /\ are_all_team_fixtures_done(lv_in.fixtures, player_team(CaptainPick))

-----------------------------------------------------------------------------
(* C32: under any interleaving of two writers that upsert the same natural   *)
(* key ((period, team) for standings, (period, team pair) for matches, the   *)
(* league being fixed), the store never holds two rows for a key, and a row  *)
(* that appears or changes is exactly the row one writer had pending.        *)

OneRowPerKey(store) == \A r1, r2 \in store : Key(r1) = Key(r2) => r1 = r2

WrittenBySomeWriter(before, after) ==
    \A r \in after \ before : \E t \in Threads : \E o \in bf[t].session : o.row = r

C32_OneRowPerKey ==
    /\ [](OneRowPerKey(tls) /\ OneRowPerKey(tlm))
    /\ [][WrittenBySomeWriter(tls, tls') /\ WrittenBySomeWriter(tlm, tlm')]_vars

\* a writer is about to commit an insert for a key that another writer has
\* committed meanwhile with other values
C32_Witness ==
    \E t \in Threads :
        /\ bf[t].pc = "commit_standings"
        /\ \E o \in bf[t].session : \E r \in tls :
              o.op = "insert" /\ Key(r) = Key(o.row) /\ r # o.row

-----------------------------------------------------------------------------
(* C33: starting from 100 qualified managers, once all 14 elimination        *)
(* gameweeks (20..33) have been processed exactly 16 managers are active,    *)
(* and the number of active managers is never below 16.                      *)

AllPeriodsProcessed ==
    \A g \in ELIMINATION_START_GW..ELIMINATION_END_GW : \E r \in elims : r.gameweek = g

NoRequestInFlight == \A t \in Threads : rq[t].pc = "idle"

C33_SixteenRemain ==
    /\ ActiveCount(reg) >= ChampionshipSize
    /\ (AllPeriodsProcessed /\ NoRequestInFlight) => ActiveCount(reg) = ChampionshipSize

-----------------------------------------------------------------------------
(* C34: when the core inputs are unavailable (the request leaves the try     *)
(* block by an exception: the bootstrap fetch failed, or the qualification   *)
(* branch raised) and no result is cached, get_the100_standings returns the  *)
(* error result with phase 'unknown' instead of raising, and it writes       *)
(* nothing: the cache and the tables of The 100 are as before.               *)

\* the request of t ends in the except branch in this step
EndsInExcept(t) ==
    /\ ctl[t].pc \in {"bootstrap", "phase"}
    /\ ctl'[t].pc = "idle"
    /\ ~ctl'[t].last.stored

ErrorResultWritesNothing ==
    \A t \in Threads :
        (EndsInExcept(t) /\ cache.data = NoData) =>
            /\ ctl'[t].last.returned = Unknown
            /\ ctl'[t].last.fetch_failed
            /\ cache' = cache
            /\ reg' = reg
            /\ elims' = elims

-----------------------------------------------------------------------------
(* C35: in every reachable state, also when two finalization attempts for    *)
(* one gameweek computed their standings from different snapshots, the       *)
(* number of elimination result rows of a gameweek is 0 or exactly 6.        *)

ResultRows(g) == {r \in elims : r.gameweek = g}

C35_ZeroOrSixRowsPerPeriod ==
    \A g \in ELIMINATION_START_GW..ELIMINATION_END_GW :
        Cardinality(ResultRows(g)) \in {0, ELIMINATIONS_PER_GW}

-----------------------------------------------------------------------------
(* C36: a manager is eliminated at most once: an eliminated_gw that is set   *)
(* is never replaced by another gameweek or cleared, and no entry has        *)
(* result rows in two gameweeks, whatever finalizations run (also one that   *)
(* follows a failed registry read, with the qualified list rebuilt from      *)
(* upstream).                                                                *)

EliminatedGwKept ==
    \A i \in DOMAIN reg :
        reg[i].eliminated_gw # 0 =>
            \E j \in DOMAIN reg' : /\ reg'[j].entry_id = reg[i].entry_id
                                   /\ reg'[j].eliminated_gw = reg[i].eliminated_gw

OnePeriodPerEntry ==
    \A r1, r2 \in elims : r1.entry_id = r2.entry_id => r1.gameweek = r2.gameweek

C36_EliminatedAtMostOnce == []OnePeriodPerEntry /\ [][EliminatedGwKept]_vars

-----------------------------------------------------------------------------
(* C37: after a team-league backfill run, also one in which a store write    *)
(* failed, the gameweeks persisted after the baseline have no hole (a later  *)
(* gap gameweek is not persisted while an earlier one is absent), and the    *)
(* cumulative totals of a persisted gameweek are those persisted for the     *)
(* gameweek before it plus the gameweek's own points.                        *)

PersistedGWs == {r.gameweek : r \in tls}

NoHole ==
    \A g \in PersistedGWs : \A h \in (BaseGW + 1)..(g - 1) : h \in PersistedGWs

\* the points of the gameweek, from complete upstream data
TruePoints(gw) == gw_team_points(gw, {})
TrueLeaguePoints(gw) == gw_league_points(BuildMatches(H2HResults(gw), TruePoints(gw), <<>>))

ChainedTotals ==
    \A r \in tls : \A p \in tls :
        (p.gameweek = r.gameweek - 1 /\ p.team_name = r.team_name) =>
            /\ r.total_fpl_points = p.total_fpl_points + TruePoints(r.gameweek)[r.team_name]
            /\ r.league_points = p.league_points + TrueLeaguePoints(r.gameweek)[r.team_name]

C37_PersistedRangeContiguous ==
    (\E t \in Threads : bf[t].pc \in {"finally", "idle"}) => (NoHole /\ ChainedTotals)

-----------------------------------------------------------------------------
(* C38: in the elite backfill the league points written for a repaired       *)
(* gameweek g are, for every entry, the sum of its 3/1/0 results over the    *)
(* finished gameweeks 1..g; when the pairings of a gameweek cannot be        *)
(* fetched, no later gameweek is written with a total that leaves that       *)
(* gameweek's points out.                                                    *)

RECURSIVE LeaguePointsUpTo(_)
LeaguePointsUpTo(g) ==
    IF g = 0 THEN [eid \in EliteEntries |-> 0]
    ELSE AddMatchPoints(LeaguePointsUpTo(g - 1), EliteMatches(g))

WritesFullTotals ==
    (el.pc = "lp" /\ standings_history' # standings_history) =>
        \A r \in standings_history' :
            r.gameweek = el.gw => r.league_points = LeaguePointsUpTo(el.gw)[r.entry_id]

C38_RepairedTotalsAreComplete == [][WritesFullTotals]_vars

-----------------------------------------------------------------------------
\* C39: for a gameweek in which every fixture is finished and a roster with
\* neither the bench-boost nor the triple-captain chip, the reconciliation
\* scorer _calculate_manager_points and the live scorer calculate_live_points
\* return the same total.
EveryFixtureFinished == \A f \in lv_in.fixtures : f.finished

NoScoringChip == lv_in.picks_data.active_chip \notin {"bboost", "3xc"}

C39_ScorersAgreeOnFinishedGameweek ==
    (lv_polls > 0 /\ EveryFixtureFinished /\ NoScoringChip)
        => _calculate_manager_points(lv_in) = lv_out.total_points

\* the same, for the rosters that carry a captain flag
C39_ScorersAgreeWithCaptain ==
    (lv_polls > 0 /\ EveryFixtureFinished /\ NoScoringChip
        /\ \E i \in 1..NumPicks : lv_in.picks_data.picks[i].is_captain)
        => _calculate_manager_points(lv_in) = lv_out.total_points

\* the same, when no pick without minutes has points of its own
C39_ScorersAgreeOnPlainStats ==
    (lv_polls > 0 /\ EveryFixtureFinished /\ NoScoringChip
        /\ (\E i \in 1..NumPicks : lv_in.picks_data.picks[i].is_captain)
        /\ \A e \in 1..NumPicks :
              lv_in.live_elements[e].minutes = 0 => lv_in.live_elements[e].total_points = 0)
        => _calculate_manager_points(lv_in) = lv_out.total_points

-----------------------------------------------------------------------------
\* C40: a reconciliation trigger that is skipped because a run is already in
\* flight leaves the guard set: the skipped call returns without writing the
\* guard, the store or the state of the run in flight, and every trigger that
\* arrives while the guard is set is skipped in the same way.
SkippedCall(t) ==
    /\ bf[t].pc = "call"
    /\ bf[t].missing_gws # <<>>
    /\ backfill_in_progress
    /\ bf'[t] # bf[t]

C40_SkippedTriggerLeavesGuardSet ==
    [][\A t \in Threads :
         SkippedCall(t) =>
            /\ bf'[t].pc = "idle"
            /\ backfill_in_progress'
            /\ \A u \in Threads \ {t} : bf'[u] = bf[u]
            /\ tls' = tls /\ tlm' = tlm]_vars

\* a call has just been skipped while the other run is in its loop, and the
\* guard is still set
C40_Witness ==
    \E t \in Threads :
        /\ bf[t].pc = "idle"
        /\ bf[t].missing_gws # <<>>
        /\ backfill_in_progress
        /\ \E u \in Threads \ {t} : bf[u].pc \in {"fetch", "commit_standings", "commit_matches"}

====
